---- MODULE Spec2Model ----
(***************************************************************************)
(* A model of the PTY session of voice-claude (src/src/claude_pty.py, the  *)
(* POSIX path) together with the calls the orchestrator makes on it        *)
(* (src/src/main.py).                                                      *)
(*                                                                         *)
(* Three flows of control share the session:                               *)
(*   - the main thread: start, set_state -> draw_status_bar, stop;         *)
(*   - the SIGWINCH handler _handle_resize, which Python runs on the main  *)
(*     thread between two bytecodes; while it runs the main thread makes   *)
(*     no step of its own, the other threads do;                           *)
(*   - the output relay thread _read_output_unix.                          *)
(* Every read or write of a shared attribute and every sys.stdout.write    *)
(* is a step of its own, so that the threads interleave as they can under  *)
(* the interpreter.                                                        *)
(*                                                                         *)
(* The real terminal is modelled by what it has been told: the scroll      *)
(* region in force and the control sequence it is in the middle of.        *)
(***************************************************************************)
EXTENDS Integers, Sequences, FiniteSets, TLC

(***************************************************************************)
(* Program constants.                                                      *)
(***************************************************************************)
STATUS_BAR_LINES == 2
SCREEN_BUFFER_SIZE == 4000
ESC_CAP == 20
LINES_KEPT == 50
DefaultLines == 24
DefaultCols == 80

(***************************************************************************)
(* Bounds of the model.                                                    *)
(***************************************************************************)
\* The child emits no control sequence that makes the accumulator of the
\* escape tracker longer than this.
MaxSeq == 3
\* The output relay appends to the screen buffer at most this many times.
MaxAppends == 4
\* start is called at most this many times on one Session.
MaxStarts == 2
\* The user types at most this many keys and mouse events.
MaxTyped == 2
\* A screen holds at most this many pieces.
MaxPieces == 2
\* The tracker is handed every stream of up to this many characters.
MaxTrack == 3

\* The sizes os.get_terminal_size() may report, <<lines, columns>>.
Sizes == {<<6, 40>>, <<24, 80>>}
\* The characters the child may emit.
ESC == "ESC"
Chars == {ESC, "[", "2", "r", "J", "x"}
\* The overlay texts the orchestrator sets, <<line1, line2>>.
Texts == {<<"A", "a">>}

NoText == <<"", "">>
NoDraw == [l1 |-> "", l2 |-> "", r1 |-> 0, r2 |-> 0, c |-> 0]
FullRegion == [top |-> 1, bot |-> 0]

VARIABLES
  \* ClaudePTY attributes
  running, process, old_tty_settings, term_lines, term_cols, pty_lines,
  esc_buffer, status, needs_status_redraw,
  \* the size last given to the child's PTY
  winsize,
  \* main thread: position, the locals of its draw_status_bar call, and
  \* _start_unix's local dimensions
  mpc, mdraw, mdims,
  \* SIGWINCH handler: position, old_pty_lines
  hpc, hold,
  \* output relay: position, locals of its draw_status_bar call, where that
  \* call returns to, the child rows read by _restore_status_bar
  rpc, rdraw, rret, rrows,
  \* the real terminal
  term,
  \* history, what the claims observe:
  \*   hist.cs       see NextCs
  \*   hist.need     the child has reset the scroll region and the relay has
  \*                 not written the session's since
  \*   hist.reset    the character relayed in this iteration completed ESC [ r
  \*   hist.owed     overlay text is set and the child has cleared the screen
  \*                 or reset the scroll region since the overlay was drawn
  \*                 (see HistEnded)
  \*   hist.geom     "stale": a resize has completed and the relay has not
  \*                 drawn the overlay at the session's geometry since;
  \*                 "redrawn": it has; "unchanged": no resize has completed
  \*   hist.cleared  the relay has cleared needs_status_redraw and not drawn
  \*                 the overlay since
  hist,
  \* the screen buffer and its lock (see "The screen buffer" below)
  screen_buffer, nout, napp, lock, bpc, gpc, gseen,
  \* the lifecycle (see "The lifecycle" below)
  child,      \* the child: "up", "closed" (its end of the pty), "exited"
  ipc,        \* where the input relay is
  call,       \* the latest call of an operation by the orchestrator
  eof,        \* the output relay has met end-of-stream since start
  starts,     \* calls of start so far
  stops,      \* calls of stop since start: 0, 1, 2 for two or more
  snap,       \* <<running, process, old_tty_settings, term>> as they were
              \* when the latest stop was called
  \* the child's input and the screen state (see "The child's input" and
  \* "The screen state" below)
  child_in,   \* the child's input: <<"main", data>> for a write of the
              \* orchestrator, <<"relay", b, k>> for a byte of the relay
  tin,        \* the bytes the real terminal's input still holds
  todo,       \* the writes the orchestrator's action has still to make
  shown,      \* what get_screen_state returned last
  cout,       \* the output of the child the relay has still to read
  \* the resize notifications and the orchestrator's main loop (see "The
  \* resize handler alone" and "The main loop" below)
  winch,      \* todo: what os.get_terminal_size will answer to the resize
              \* notifications still to come; out: what the resize handler
              \* has written to the terminal
  loop        \* the main loop of VoiceClaude.run: where it is, the state
              \* set_state stored last, the states set in this iteration,
              \* the action of the agent

sess == <<running, process, old_tty_settings, term_lines, term_cols, pty_lines,
          esc_buffer, status, needs_status_redraw, winsize>>
mainv == <<mpc, mdraw, mdims>>
handv == <<hpc, hold>>
relayv == <<rpc, rdraw, rret, rrows>>
progv == <<sess, mainv, handv, relayv, term, hist>>
bufv == <<screen_buffer, nout, napp, lock, bpc, gpc, gseen>>
lifev == <<child, ipc, call, eof, starts, stops, snap>>
iov == <<child_in, tin, todo, shown, cout, winch, loop>>
extv == <<bufv, lifev, iov>>
vars == <<progv, extv>>

(***************************************************************************)
(* The escape tracker, _track_escape_sequence.                             *)
(***************************************************************************)
\* str.isalpha() on the characters the child emits.
IsAlpha(c) == c \in {"r", "J", "x"}

\* A faulty variant of ResetSeq, which C4 must not survive: the tracker
\* compares with another sequence.
ResetSeqOther == <<ESC, "[", "2", "r">>

\* seq == '\x1b[r'
ResetSeq == <<ESC, "[", "r">>

\* A faulty variant of TrackBuffer, which C26 must not survive: the cap is
\* tested before the character is added, and only on a full accumulator.
TrackBufferLate(buf, c) ==
  IF c = ESC THEN <<ESC>>
  ELSE IF buf # <<>>
       THEN IF IsAlpha(c) \/ c = "~" THEN <<>>
            ELSE IF Len(buf) > ESC_CAP THEN <<>>
            ELSE Append(buf, c)
       ELSE buf

\* The accumulator after the call.
TrackBuffer(buf, c) ==
  IF c = ESC THEN <<ESC>>
  ELSE IF buf # <<>>
       THEN IF IsAlpha(c) \/ c = "~" THEN <<>>
            ELSE IF Len(buf) + 1 > ESC_CAP THEN <<>>
            ELSE Append(buf, c)
       ELSE buf

\* A faulty variant of TrackMatches, which C34 must not survive: ESC r is
\* taken for a reset of the region as well.
TrackMatchesBare(buf, c) ==
  /\ c = "r"
  /\ buf \in {<<ESC>>, <<ESC, "[">>}

\* Whether the call goes on to _restore_status_bar.
TrackMatches(buf, c) ==
  /\ c # ESC
  /\ buf # <<>>
  /\ IsAlpha(c) \/ c = "~"
  /\ Append(buf, c) = ResetSeq

(***************************************************************************)
(* The real terminal: term.region is the scroll region in force (bot = 0   *)
(* stands for the last row of the screen), term.seq the control sequence   *)
(* the terminal is in the middle of.                                       *)
(***************************************************************************)
\* One character of the child arriving at the terminal.
TermChar(t, c) ==
  IF c = ESC THEN [t EXCEPT !.seq = <<ESC>>]
  ELSE IF t.seq = <<>> THEN t
  ELSE IF t.seq = <<ESC>>
       THEN [t EXCEPT !.seq = IF c = "[" THEN <<ESC, "[">> ELSE <<>>]
  ELSE IF c = "2" THEN [t EXCEPT !.seq = Append(t.seq, c)]
  ELSE \* the final character of a CSI sequence
    LET params == SubSeq(t.seq, 3, Len(t.seq)) IN
    IF c = "r" /\ params = <<>>
      THEN [t EXCEPT !.seq = <<>>, !.region = FullRegion]
    ELSE IF c = "r" /\ params = <<"2">>
      THEN [t EXCEPT !.seq = <<>>, !.region = [top |-> 2, bot |-> 0]]
    ELSE [t EXCEPT !.seq = <<>>]

\* A control string of the session arriving at the terminal: it starts with
\* ESC, which ends whatever sequence the terminal was in the middle of.
TermSetRegion(t, n) == [t EXCEPT !.seq = <<>>, !.region = [top |-> 1, bot |-> n]]
TermOverlay(t, d) == [t EXCEPT !.seq = <<>>]
TermBlank(t) == [t EXCEPT !.seq = <<>>]
TermRestore(t) == [t EXCEPT !.seq = <<>>, !.region = FullRegion]

(***************************************************************************)
(* What the claims observe of the child's output, recognised on the        *)
(* child's own stream: hist.cs counts how much of ESC [ 2 has just been    *)
(* seen (1: ESC, 2: ESC [, 3: ESC [ 2).                                    *)
(***************************************************************************)
NextCs(cs, c) ==
  IF c = ESC THEN 1
  ELSE IF cs = 1 /\ c = "[" THEN 2
  ELSE IF cs = 2 /\ c = "2" THEN 3
  ELSE 0
ChildResets(cs, c) == cs = 2 /\ c = "r"
ChildClears(cs, c) == cs = 3 /\ c = "J"

\* An overlay draw d reaching the terminal from thread `by`.
HistOverlay(h, by, d) ==
  [h EXCEPT !.owed = FALSE,
            !.geom = IF by = "relay" /\ h.geom = "stale"
                        /\ d.r1 = term_lines - 1 /\ d.r2 = term_lines
                        /\ d.c = term_cols
                     THEN "redrawn" ELSE h.geom,
            !.cleared = IF by = "relay" THEN FALSE ELSE h.cleared]

\* hist.owed and hist.geom are kept while the session runs and its relay
\* relays; they are dropped when either ends.
HistEnded(h) == [h EXCEPT !.owed = FALSE, !.geom = "unchanged"]

Quiet == UNCHANGED term

\* The main thread runs its own code only while no signal handler does.
MainRuns == hpc \in {"off", "idle"}

\* The screen buffer as __init__ leaves it. Spec does not follow the
\* buffer's contents; BufSpec does.
BufOff ==
  /\ screen_buffer = <<>> /\ nout = 0 /\ napp = 0
  /\ lock = "none" /\ bpc = "off" /\ gpc = "off" /\ gseen = 0

NoCall == [op |-> "none", arg |-> <<>>, ran |-> FALSE, sent |-> <<>>,
           ret |-> FALSE]
NoSnap == <<FALSE, "none", FALSE, [region |-> FullRegion, seq |-> <<>>]>>

\* The lifecycle's bookkeeping before start. Spec and BufSpec leave it alone;
\* LifeSpec follows it.
LifeOff ==
  /\ child = "up" /\ ipc = "off" /\ call = NoCall /\ eof = FALSE
  /\ starts = 1 /\ stops = 0 /\ snap = NoSnap

\* Nothing typed, written to the child or asked of the screen yet. Only
\* InSpec and TextSpec follow these.
NoWinch == [todo |-> <<>>, out |-> <<>>, done |-> <<>>]
NoAction == [tool |-> "none", arg |-> <<>>]
NoLoop == [pc |-> "off", state |-> "LISTENING", seen |-> <<>>,
           action |-> NoAction, text |-> "", last |-> "", n |-> 0]

IoOff ==
  /\ child_in = <<>> /\ tin = <<>> /\ todo = <<>> /\ shown = <<>>
  /\ cout = <<>> /\ winch = NoWinch /\ loop = NoLoop

InitSession ==
  /\ running = FALSE
  /\ process = "none"
  /\ old_tty_settings = FALSE
  /\ term_lines = DefaultLines
  /\ term_cols = DefaultCols
  /\ pty_lines = DefaultLines
  /\ esc_buffer = <<>>
  /\ status = NoText
  /\ needs_status_redraw = FALSE
  /\ winsize = <<0, 0>>
  /\ mpc = "new" /\ mdraw = NoDraw /\ mdims = <<0, 0>>
  /\ hpc = "off" /\ hold = 0
  /\ rpc = "off" /\ rdraw = NoDraw /\ rret = "loop" /\ rrows = 0
  /\ term = [region |-> FullRegion, seq |-> <<>>]
  /\ hist = [owed |-> FALSE, geom |-> "unchanged", cleared |-> FALSE, cs |-> 0,
              need |-> FALSE, reset |-> FALSE]

Init == InitSession /\ BufOff /\ LifeOff /\ IoOff

(***************************************************************************)
(* start, on the main thread.                                              *)
(***************************************************************************)
\* os.get_terminal_size() and its fallback.
StartQuery ==
  /\ mpc = "new" /\ MainRuns
  /\ \/ \E s \in Sizes :
          term_lines' = s[1] /\ term_cols' = s[2]
     \/ term_lines' = DefaultLines /\ term_cols' = DefaultCols
  /\ mpc' = "start_reserve"
  /\ Quiet
  /\ UNCHANGED <<running, process, old_tty_settings, pty_lines, esc_buffer,
                 status, needs_status_redraw, winsize, mdraw, mdims, handv,
                 relayv, hist, extv>>

ReservedLines(lines) == lines - STATUS_BAR_LINES

StartReserve ==
  /\ mpc = "start_reserve" /\ MainRuns
  /\ pty_lines' = ReservedLines(term_lines)
  /\ mpc' = "start_region"
  /\ Quiet
  /\ UNCHANGED <<running, process, old_tty_settings, term_lines, term_cols,
                 esc_buffer, status, needs_status_redraw, winsize, mdraw, mdims,
                 handv, relayv, hist, extv>>

\* _start_unix up to signal.signal: from here on SIGWINCH runs the handler.
StartRegion ==
  /\ mpc = "start_region" /\ MainRuns
  /\ mdims' = <<pty_lines, term_cols>>
  /\ term' = TermSetRegion(term, pty_lines)
  /\ hpc' = "idle"
  /\ mpc' = "start_spawn"
  /\ UNCHANGED <<sess, mdraw, hold, relayv, hist, extv>>

\* pexpect.spawn with the dimensions taken before, then raw mode (stdin is
\* taken to be a terminal: tcgetattr succeeds).
StartSpawn ==
  /\ mpc = "start_spawn" /\ MainRuns
  /\ process' = "alive"
  /\ winsize' = mdims
  /\ mdims' = <<0, 0>>
  /\ old_tty_settings' = TRUE
  /\ mpc' = "start_run"
  /\ Quiet
  /\ UNCHANGED <<running, term_lines, term_cols, pty_lines, esc_buffer, status,
                 needs_status_redraw, mdraw, handv, relayv, hist, extv>>

\* running = True and the relay threads started.
StartRun ==
  /\ mpc = "start_run" /\ MainRuns
  /\ running' = TRUE
  /\ rpc' = "loop"
  /\ mpc' = "idle"
  /\ Quiet
  /\ UNCHANGED <<process, old_tty_settings, term_lines, term_cols, pty_lines,
                 esc_buffer, status, needs_status_redraw, winsize, mdraw, mdims,
                 handv, rdraw, rret, rrows, hist, extv>>

(***************************************************************************)
(* _handle_resize, run by SIGWINCH.                                        *)
(***************************************************************************)
\* os.get_terminal_size(): OSError and the handler returns, or a size, and
\* then old_pty_lines, term_lines and term_cols are assigned.
ResizeQuery ==
  /\ hpc = "idle"
  /\ \/ \E s \in Sizes :
          /\ hold' = pty_lines
          /\ term_lines' = s[1]
          /\ term_cols' = s[2]
          /\ hpc' = "h_pty"
     \/ UNCHANGED <<hpc, hold, term_lines, term_cols>>
  /\ Quiet
  /\ UNCHANGED <<running, process, old_tty_settings, pty_lines, esc_buffer,
                 status, needs_status_redraw, winsize, mainv, relayv, hist,
                 extv>>

\* A faulty variant of ResizePty, which C3 must not survive: the handler
\* leaves the child rows as they were.
ResizePtyKept ==
  /\ hpc = "h_pty"
  /\ hpc' = "h_region"
  /\ Quiet
  /\ UNCHANGED <<sess, mainv, hold, relayv, hist, extv>>

\* self._pty_lines = self.term_lines - self.STATUS_BAR_LINES
ResizePty ==
  /\ hpc = "h_pty"
  /\ pty_lines' = ReservedLines(term_lines)
  /\ hpc' = "h_region"
  /\ Quiet
  /\ UNCHANGED <<running, process, old_tty_settings, term_lines, term_cols,
                 esc_buffer, status, needs_status_redraw, winsize, mainv, hold,
                 relayv, hist, extv>>

\* The rows blanked when shrinking: pty_lines + 1 .. old_pty_lines.
BlankedRows(new, old) == IF new < old THEN (new + 1)..old ELSE {}

\* The blanking string, if any, and the scroll region, flushed together.
ResizeRegion ==
  /\ hpc = "h_region"
  /\ term' = TermSetRegion(IF BlankedRows(pty_lines, hold) # {}
                              THEN TermBlank(term) ELSE term, pty_lines)
  /\ hold' = 0
  /\ hpc' = "h_finish"
  /\ UNCHANGED <<sess, mainv, relayv, hist, extv>>

\* A faulty variant of ResizeFinish, which C9 must not survive: the handler
\* does not raise the redraw flag.
ResizeFinishNoFlag ==
  /\ hpc = "h_finish"
  /\ IF process = "closed"
       THEN UNCHANGED <<winsize, hist>>
       ELSE /\ winsize' = IF process = "alive" THEN <<pty_lines, term_cols>>
                          ELSE winsize
            /\ hist' = IF running /\ rpc \notin {"restore", "dead"}
                         THEN [hist EXCEPT !.geom = "stale"] ELSE hist
  /\ hpc' = "idle"
  /\ Quiet
  /\ UNCHANGED <<running, process, old_tty_settings, term_lines, term_cols,
                 pty_lines, esc_buffer, status, needs_status_redraw, mainv, hold,
                 relayv, extv>>

\* process.setwinsize, if there is a child; on a closed child it raises and
\* so ends the handler. Then the redraw flag.
ResizeFinish ==
  /\ hpc = "h_finish"
  /\ IF process = "closed"
       THEN UNCHANGED <<winsize, needs_status_redraw, hist>>
       ELSE /\ winsize' = IF process = "alive" THEN <<pty_lines, term_cols>>
                          ELSE winsize
            /\ needs_status_redraw' = TRUE
            /\ hist' = IF running /\ rpc \notin {"restore", "dead"}
                         THEN [hist EXCEPT !.geom = "stale"] ELSE hist
  /\ hpc' = "idle"
  /\ Quiet
  /\ UNCHANGED <<running, process, old_tty_settings, term_lines, term_cols,
                 pty_lines, esc_buffer, status, mainv, hold, relayv, extv>>

(***************************************************************************)
(* draw_status_bar called by the orchestrator: VoiceClaude.set_state on    *)
(* the main thread.                                                        *)
(***************************************************************************)
\* set_state's and draw_status_bar's test of running, then the call.
MainSetState ==
  /\ mpc = "idle" /\ MainRuns
  /\ \E t \in Texts :
       IF running
         THEN mdraw' = [NoDraw EXCEPT !.l1 = t[1], !.l2 = t[2]] /\ mpc' = "d_store"
         ELSE UNCHANGED <<mdraw, mpc>>
  /\ Quiet
  /\ UNCHANGED <<sess, mdims, handv, relayv,
                 hist, extv>>

MainDrawStore ==
  /\ mpc = "d_store" /\ MainRuns
  /\ status' = <<mdraw.l1, mdraw.l2>>
  /\ mpc' = "d_row1"
  /\ Quiet
  /\ UNCHANGED <<running, process, old_tty_settings, term_lines, term_cols,
                 pty_lines, esc_buffer, needs_status_redraw, winsize, mdraw,
                 mdims, handv, relayv, hist, extv>>

\* status_line1 = self.term_lines - 1
MainDrawRow1 ==
  /\ mpc = "d_row1" /\ MainRuns
  /\ mdraw' = [mdraw EXCEPT !.r1 = term_lines - 1]
  /\ mpc' = "d_row2"
  /\ Quiet
  /\ UNCHANGED <<sess, mdims, handv, relayv, hist, extv>>

\* status_line2 = self.term_lines, and the padding to self.term_cols
MainDrawRow2 ==
  /\ mpc = "d_row2" /\ MainRuns
  /\ mdraw' = [mdraw EXCEPT !.r2 = term_lines, !.c = term_cols]
  /\ mpc' = "d_write"
  /\ Quiet
  /\ UNCHANGED <<sess, mdims, handv, relayv, hist, extv>>

MainDrawWrite ==
  /\ mpc = "d_write" /\ MainRuns
  /\ term' = TermOverlay(term, mdraw)
  /\ hist' = HistOverlay(hist, "main", mdraw)
  /\ mdraw' = NoDraw
  /\ mpc' = "idle"
  /\ UNCHANGED <<sess, mdims, handv, relayv, extv>>

(***************************************************************************)
(* stop, on the main thread.                                               *)
(***************************************************************************)
MainStop ==
  /\ mpc = "idle" /\ MainRuns
  /\ running' = FALSE
  /\ hist' = HistEnded(hist)
  /\ mpc' = "stop_restore"
  /\ Quiet
  /\ UNCHANGED <<process, old_tty_settings, term_lines, term_cols, pty_lines,
                 esc_buffer, status, needs_status_redraw, winsize, mdraw, mdims,
                 handv, relayv, extv>>

\* A faulty variant of MainStopRestore, which C13 must not survive:
\* tcsetattr is called without the test of old_tty_settings, and raises
\* when they are None.
MainStopRestoreUnguarded ==
  /\ mpc = "stop_restore" /\ MainRuns
  /\ old_tty_settings' = FALSE
  /\ IF old_tty_settings
       THEN term' = TermRestore(term) /\ mpc' = "stop_close"
       ELSE term' = term /\ mpc' = "raised"
  /\ UNCHANGED <<running, process, term_lines, term_cols, pty_lines, esc_buffer,
                 status, needs_status_redraw, winsize, mdraw, mdims, handv,
                 relayv, hist, extv>>

\* _restore_terminal: tcsetattr with the saved settings, if any, then
\* ESC[r ESC[2J ESC[H.
MainStopRestore ==
  /\ mpc = "stop_restore" /\ MainRuns
  /\ old_tty_settings' = FALSE
  /\ term' = TermRestore(term)
  /\ mpc' = "stop_close"
  /\ UNCHANGED <<running, process, term_lines, term_cols, pty_lines, esc_buffer,
                 status, needs_status_redraw, winsize, mdraw, mdims, handv,
                 relayv, hist, extv>>

\* A faulty variant of MainStopClose, which C15 must not survive: stop
\* ends by setting the running flag.
MainStopCloseRuns ==
  /\ mpc = "stop_close" /\ MainRuns
  /\ process' = IF process = "none" THEN "none" ELSE "closed"
  /\ running' = TRUE
  /\ mpc' = "idle"
  /\ Quiet
  /\ UNCHANGED <<old_tty_settings, term_lines, term_cols, pty_lines,
                 esc_buffer, status, needs_status_redraw, winsize, mdraw, mdims,
                 handv, relayv, hist, extv>>

\* process.close() on a child not closed before
MainStopClose ==
  /\ mpc = "stop_close" /\ MainRuns
  /\ process' = IF process = "none" THEN "none" ELSE "closed"
  /\ mpc' = "idle"
  /\ Quiet
  /\ UNCHANGED <<running, old_tty_settings, term_lines, term_cols, pty_lines,
                 esc_buffer, status, needs_status_redraw, winsize, mdraw, mdims,
                 handv, relayv, hist, extv>>

(***************************************************************************)
(* The output relay, _read_output_unix.                                    *)
(***************************************************************************)
\* while self.running and self.process
RelayLoop ==
  /\ rpc = "loop"
  /\ rpc' = IF running /\ process # "none" THEN "read" ELSE "dead"
  /\ Quiet
  /\ UNCHANGED <<sess, mainv, handv, rdraw, rret, rrows, hist, extv>>

\* read_nonblocking returns c: it is written to the terminal and handed to
\* _track_escape_sequence.
RelayChar ==
  /\ rpc = "read" /\ process = "alive"
  /\ \E c \in Chars :
       /\ Len(TrackBuffer(esc_buffer, c)) <= MaxSeq
       /\ term' = TermChar(term, c)
       /\ esc_buffer' = TrackBuffer(esc_buffer, c)
       /\ rpc' = IF TrackMatches(esc_buffer, c) THEN "rs_fmt" ELSE "append"
       /\ hist' = [hist EXCEPT
             !.cs = NextCs(hist.cs, c),
             !.need = hist.need \/ ChildResets(hist.cs, c),
             !.reset = ChildResets(hist.cs, c),
             !.owed = hist.owed \/ (status[1] # ""
                        /\ (ChildResets(hist.cs, c) \/ ChildClears(hist.cs, c)))]
  /\ UNCHANGED <<running, process, old_tty_settings, term_lines, term_cols,
                 pty_lines, status, needs_status_redraw, winsize, mainv, handv,
                 rdraw, rret, rrows, extv>>

\* _restore_status_bar: the f-string reads _pty_lines ...
RelayRestoreFmt ==
  /\ rpc = "rs_fmt"
  /\ rrows' = pty_lines
  /\ rpc' = "rs_write"
  /\ Quiet
  /\ UNCHANGED <<sess, mainv, handv, rdraw, rret, hist, extv>>

\* ... and sys.stdout.write sends it.
RelayRestoreWrite ==
  /\ rpc = "rs_write"
  /\ term' = TermSetRegion(term, rrows)
  /\ hist' = [hist EXCEPT !.need = FALSE]
  /\ rrows' = 0
  /\ rpc' = "rs_text"
  /\ UNCHANGED <<sess, mainv, handv, rdraw, rret, extv>>

\* if self._status_line1: draw_status_bar(...), which returns at once when
\* not running.
RelayRestoreText ==
  /\ rpc = "rs_text"
  /\ IF status[1] # "" /\ running
       THEN /\ rdraw' = [NoDraw EXCEPT !.l1 = status[1], !.l2 = status[2]]
            /\ rret' = "append"
            /\ rpc' = "d_store"
       ELSE /\ rpc' = "append"
            /\ UNCHANGED <<rdraw, rret>>
  /\ Quiet
  /\ UNCHANGED <<sess, mainv, handv, rrows, hist, extv>>

\* The screen buffer append; the iteration ends.
RelayAppend ==
  /\ rpc = "append"
  /\ hist' = [hist EXCEPT !.reset = FALSE]
  /\ rpc' = "loop"
  /\ Quiet
  /\ UNCHANGED <<sess, mainv, handv, rdraw, rret, rrows, extv>>

\* pexpect.TIMEOUT: if self._needs_status_redraw and self._status_line1
RelayTimeout ==
  /\ rpc = "read" /\ process = "alive"
  /\ IF needs_status_redraw /\ status[1] # ""
       THEN rpc' = "t_clear"
       ELSE rpc' = "loop"
  /\ Quiet
  /\ UNCHANGED <<sess, mainv, handv, rdraw, rret, rrows, hist, extv>>

\* self._needs_status_redraw = False
RelayClear ==
  /\ rpc = "t_clear"
  /\ needs_status_redraw' = FALSE
  /\ hist' = [hist EXCEPT !.cleared = TRUE]
  /\ rpc' = "t_call"
  /\ Quiet
  /\ UNCHANGED <<running, process, old_tty_settings, term_lines, term_cols,
                 pty_lines, esc_buffer, status, winsize, mainv, handv, rdraw,
                 rret, rrows, extv>>

\* self.draw_status_bar(self._status_line1, self._status_line2), which
\* returns at once when not running.
RelayCall ==
  /\ rpc = "t_call"
  /\ IF running
       THEN /\ rdraw' = [NoDraw EXCEPT !.l1 = status[1], !.l2 = status[2]]
            /\ rpc' = "d_store"
       ELSE /\ rpc' = "loop"
            /\ UNCHANGED rdraw
  /\ rret' = "loop"
  /\ Quiet
  /\ UNCHANGED <<sess, mainv, handv, rrows, hist, extv>>

RelayDrawStore ==
  /\ rpc = "d_store"
  /\ status' = <<rdraw.l1, rdraw.l2>>
  /\ rpc' = "d_row1"
  /\ Quiet
  /\ UNCHANGED <<running, process, old_tty_settings, term_lines, term_cols,
                 pty_lines, esc_buffer, needs_status_redraw, winsize, mainv,
                 handv, rdraw, rret, rrows, hist, extv>>

\* status_line1 = self.term_lines - 1
RelayDrawRow1 ==
  /\ rpc = "d_row1"
  /\ rdraw' = [rdraw EXCEPT !.r1 = term_lines - 1]
  /\ rpc' = "d_row2"
  /\ Quiet
  /\ UNCHANGED <<sess, mainv, handv, rret, rrows, hist, extv>>

\* status_line2 = self.term_lines, and the padding to self.term_cols
RelayDrawRow2 ==
  /\ rpc = "d_row2"
  /\ rdraw' = [rdraw EXCEPT !.r2 = term_lines, !.c = term_cols]
  /\ rpc' = "d_write"
  /\ Quiet
  /\ UNCHANGED <<sess, mainv, handv, rret, rrows, hist, extv>>

\* A faulty variant of RelayDrawWrite, which C10 must not survive: the flag
\* is cleared once the draw is written, not before the draw is begun.
RelayDrawWriteClears ==
  /\ rpc = "d_write"
  /\ term' = TermOverlay(term, rdraw)
  /\ hist' = HistOverlay(hist, "relay", rdraw)
  /\ needs_status_redraw' = FALSE
  /\ rdraw' = NoDraw
  /\ rpc' = rret
  /\ rret' = "loop"
  /\ UNCHANGED <<running, process, old_tty_settings, term_lines, term_cols,
                 pty_lines, esc_buffer, status, winsize, mainv, handv, rrows,
                 extv>>

\* sys.stdout.write(output), and the call returns.
RelayDrawWrite ==
  /\ rpc = "d_write"
  /\ term' = TermOverlay(term, rdraw)
  /\ hist' = HistOverlay(hist, "relay", rdraw)
  /\ rdraw' = NoDraw
  /\ rpc' = rret
  /\ rret' = "loop"
  /\ UNCHANGED <<sess, mainv, handv, rrows, extv>>

\* pexpect.EOF
RelayEOF ==
  /\ rpc = "read" /\ process = "alive"
  /\ running' = FALSE
  /\ hist' = HistEnded(hist)
  /\ rpc' = "restore"
  /\ Quiet
  /\ UNCHANGED <<process, old_tty_settings, term_lines, term_cols, pty_lines,
                 esc_buffer, status, needs_status_redraw, winsize, mainv, handv,
                 rdraw, rret, rrows, extv>>

\* any other exception of the read (a closed child, an undecodable byte)
RelayError ==
  /\ rpc = "read"
  /\ hist' = HistEnded(hist)
  /\ rpc' = "restore"
  /\ Quiet
  /\ UNCHANGED <<sess, mainv, handv, rdraw, rret, rrows, extv>>

\* _restore_terminal, as in stop.
RelayRestoreTerminal ==
  /\ rpc = "restore"
  /\ old_tty_settings' = FALSE
  /\ term' = TermRestore(term)
  /\ rpc' = "dead"
  /\ UNCHANGED <<running, process, term_lines, term_cols, pty_lines, esc_buffer,
                 status, needs_status_redraw, winsize, mainv, handv, rdraw, rret,
                 rrows, hist, extv>>

Start == StartQuery \/ StartReserve \/ StartRegion \/ StartSpawn \/ StartRun
Resize == ResizeQuery \/ ResizePty \/ ResizeRegion \/ ResizeFinish
Main ==
  \/ MainSetState \/ MainDrawStore \/ MainDrawRow1 \/ MainDrawRow2
  \/ MainDrawWrite
  \/ MainStop \/ MainStopRestore \/ MainStopClose
Relay ==
  \/ RelayLoop \/ RelayChar \/ RelayRestoreFmt \/ RelayRestoreWrite
  \/ RelayRestoreText \/ RelayAppend \/ RelayTimeout \/ RelayClear
  \/ RelayCall \/ RelayDrawStore \/ RelayDrawRow1 \/ RelayDrawRow2
  \/ RelayDrawWrite \/ RelayEOF \/ RelayError
  \/ RelayRestoreTerminal

Next == Start \/ Resize \/ Main \/ Relay

Spec == Init /\ [][Next]_vars

\* The relay thread is scheduled, and the child's output goes idle again and
\* again: a read that is tried infinitely often times out infinitely often.
FairSpec == Spec /\ WF_vars(Relay) /\ SF_vars(RelayTimeout)

(***************************************************************************)
(* The screen buffer. The code never looks at the characters it stores, so *)
(* the k-th character the child emits is written k: screen_buffer is a     *)
(* sequence of positions of the child's output and nout the number of      *)
(* characters appended so far. BufSpec follows the append of the output    *)
(* relay (one character on POSIX, up to 1024 read at once on Windows) and  *)
(* a caller of get_screen_state on another thread; the session itself      *)
(* stays as start left it on a 24x80 terminal.                             *)
(***************************************************************************)
SessionShowing(st) ==
  /\ running = TRUE
  /\ process = "alive"
  /\ old_tty_settings = TRUE
  /\ term_lines = DefaultLines
  /\ term_cols = DefaultCols
  /\ pty_lines = ReservedLines(DefaultLines)
  /\ esc_buffer = <<>>
  /\ status = st
  /\ needs_status_redraw = FALSE
  /\ winsize = <<ReservedLines(DefaultLines), DefaultCols>>
  /\ mpc = "idle" /\ mdraw = NoDraw /\ mdims = <<0, 0>>
  /\ hpc = "idle" /\ hold = 0
  /\ rpc = "append" /\ rdraw = NoDraw /\ rret = "loop" /\ rrows = 0
  /\ term = [region |-> [top |-> 1, bot |-> ReservedLines(DefaultLines)],
             seq |-> <<>>]
  /\ hist = [owed |-> FALSE, geom |-> "unchanged", cleared |-> FALSE, cs |-> 0,
              need |-> FALSE, reset |-> FALSE]

\* ... with no overlay drawn yet.
SessionUp == SessionShowing(NoText)

\* The characters at positions a..b of the child's output.
Out(a, b) == [i \in 1..(b - a + 1) |-> a + i - 1]

\* How many characters one append adds.
ChunkSizes == {1, 1024}
\* What the buffer may already hold: nothing, or nearly its capacity.
Prefilled == {0, SCREEN_BUFFER_SIZE - 2}

BufInit ==
  /\ SessionUp
  /\ LifeOff
  /\ IoOff
  /\ nout \in Prefilled
  /\ screen_buffer = Out(1, nout)
  /\ napp = 0
  /\ lock = "none" /\ bpc = "idle" /\ gpc = "idle" /\ gseen = 0

\* with self._buffer_lock: (the output relay)
BufAcquire ==
  /\ bpc = "idle" /\ lock = "none" /\ napp < MaxAppends
  /\ lock' = "relay"
  /\ bpc' = "add"
  /\ UNCHANGED <<screen_buffer, nout, napp, gpc, gseen, progv, lifev, iov>>

\* self._screen_buffer += char
BufAdd ==
  /\ bpc = "add"
  /\ \E k \in ChunkSizes :
       /\ screen_buffer' = screen_buffer \o Out(nout + 1, nout + k)
       /\ nout' = nout + k
  /\ bpc' = "trim"
  /\ UNCHANGED <<napp, lock, gpc, gseen, progv, lifev, iov>>

\* s[-n:] for 0 < n
Last(seq, n) == IF Len(seq) <= n THEN seq ELSE SubSeq(seq, Len(seq) - n + 1, Len(seq))

\* A faulty variant of BufTrim, which C11 must not survive: the buffer
\* keeps its first characters.
BufTrimFirst ==
  /\ bpc = "trim"
  /\ screen_buffer' = IF Len(screen_buffer) > SCREEN_BUFFER_SIZE
                         THEN SubSeq(screen_buffer, 1, SCREEN_BUFFER_SIZE)
                         ELSE screen_buffer
  /\ bpc' = "release"
  /\ UNCHANGED <<nout, napp, lock, gpc, gseen, progv, lifev, iov>>

\* if len(self._screen_buffer) > self.SCREEN_BUFFER_SIZE: keep the last
\* SCREEN_BUFFER_SIZE characters
BufTrim ==
  /\ bpc = "trim"
  /\ screen_buffer' = IF Len(screen_buffer) > SCREEN_BUFFER_SIZE
                         THEN Last(screen_buffer, SCREEN_BUFFER_SIZE)
                         ELSE screen_buffer
  /\ bpc' = "release"
  /\ UNCHANGED <<nout, napp, lock, gpc, gseen, progv, lifev, iov>>

\* the with block ends
BufRelease ==
  /\ bpc = "release"
  /\ lock' = "none"
  /\ napp' = napp + 1
  /\ bpc' = "idle"
  /\ UNCHANGED <<screen_buffer, nout, gpc, gseen, progv, lifev, iov>>

\* A faulty variant of GetAcquire, which C12 must not survive:
\* get_screen_state does not wait for the lock.
GetAcquireNoLock ==
  /\ gpc = "idle"
  /\ gpc' = "read"
  /\ UNCHANGED <<screen_buffer, nout, napp, lock, bpc, gseen, progv, lifev, iov>>

\* get_screen_state, with self._buffer_lock:
GetAcquire ==
  /\ gpc = "idle" /\ lock = "none"
  /\ lock' = "reader"
  /\ gpc' = "read"
  /\ UNCHANGED <<screen_buffer, nout, napp, bpc, gseen, progv, lifev, iov>>

\* text = self._screen_buffer: gseen is the length of what was read.
GetRead ==
  /\ gpc = "read"
  /\ gseen' = Len(screen_buffer)
  /\ gpc' = "release"
  /\ UNCHANGED <<screen_buffer, nout, napp, lock, bpc, progv, lifev, iov>>

\* the stripping, still inside the with block, and the return
GetRelease ==
  /\ gpc = "release"
  /\ lock' = IF lock = "reader" THEN "none" ELSE lock
  /\ gpc' = "idle"
  /\ UNCHANGED <<screen_buffer, nout, napp, bpc, gseen, progv, lifev, iov>>

BufRelay == BufAcquire \/ BufAdd \/ BufTrim \/ BufRelease
BufReader == GetAcquire \/ GetRead \/ GetRelease
BufNext == BufRelay \/ BufReader
BufSpec == BufInit /\ [][BufNext]_vars

(***************************************************************************)
(* The lifecycle: start, the operations the orchestrator calls on the main *)
(* thread (send, send_key, send_keys, send_escape, send_interrupt,         *)
(* draw_status_bar, is_alive, stop, and start once more after a stop), the *)
(* output relay's reads ending in a timeout, end-of-stream or another      *)
(* failure, the input relay, and the child closing its end of the pty and  *)
(* exiting. LifeSpec leaves the resize handler and the child's output      *)
(* characters to Spec.                                                     *)
(***************************************************************************)
\* The names send_key is called with, and single characters.
Keys ==
  {"Enter", "return", "RETURN", "esc", "up", "Shift+Tab", "backspace",
   "Delete", "End", "x", "R", "F5", "pgup"}

\* str.lower() on Keys, and on the words of the screen
Lower(k) ==
  CASE k = "Enter" -> "enter"
    [] k = "Allow" -> "allow"
    [] k = "PERMIT" -> "permit"
    [] k = "Yes" -> "yes"
    [] k = "Y/N" -> "y/n"
    [] k = "Yes/No" -> "yes/no"
    [] k = "Proceed?" -> "proceed?"
    [] k = "Listening" -> "listening"
    [] k = "RETURN" -> "return"
    [] k = "Shift+Tab" -> "shift+tab"
    [] k = "Delete" -> "delete"
    [] k = "End" -> "end"
    [] k = "R" -> "r"
    [] k = "F5" -> "f5"
    [] OTHER -> k

\* len(key) == 1 on Keys
IsChar(k) == k \in {"x", "R"}

\* Bytes are written by name: CR is \r, ESC is \x1b, TAB is \t, DEL is
\* \x7f, ETX is \x03.
key_map ==
  [enter |-> "CR", return |-> "CR", escape |-> "ESC", esc |-> "ESC",
   up |-> "ESC[A", down |-> "ESC[B", right |-> "ESC[C", left |-> "ESC[D",
   tab |-> "TAB", backtab |-> "ESC[Z", backspace |-> "DEL",
   delete |-> "ESC[3~", home |-> "ESC[H", end |-> "ESC[F"]
  @@ ("shift+tab" :> "ESC[Z")

\* A faulty variant of KeyData, which C20 must not survive: the name is
\* looked up as given.
KeyDataExact(key) ==
  IF key \in DOMAIN key_map THEN key_map[key] ELSE key

\* send_key's data: the named key, else the single character, else the
\* name as it is.
KeyData(key) ==
  IF Lower(key) \in DOMAIN key_map THEN key_map[Lower(key)]
  ELSE IF IsChar(key) THEN key
  ELSE key

\* What the orchestrator calls, with the arguments tried.
Calls ==
  [op : {"send_key"}, arg : {<<k>> : k \in Keys}]
    \cup [op : {"send"}, arg : {<<"hi">>, <<"">>}]
    \cup [op : {"send_keys"}, arg : {<<>>, <<"up", "Enter">>}]
    \cup [op : {"send_escape", "send_interrupt"}, arg : {<<>>}]

\* The writes to the child one call makes once it is past its test.
CallWrites(c) ==
  CASE c.op = "send" -> <<c.arg[1], "CR">>
    [] c.op = "send_key" -> <<KeyData(c.arg[1])>>
    [] c.op = "send_keys" -> [i \in 1..Len(c.arg) |-> KeyData(c.arg[i])]
    [] c.op = "send_escape" -> <<KeyData("escape")>>
    [] c.op = "send_interrupt" -> <<"ETX">>

\* A faulty variant of CallRuns, which C16 must not survive: the
\* operations test the process only.
CallRunsProcessOnly == process # "none"

\* if not self.process or not self.running: return
CallRuns == process # "none" /\ running

\* send, send_key, send_keys, send_escape, send_interrupt, called before
\* start or between two other operations of the main thread.
MainCall ==
  /\ mpc \in {"new", "idle"} /\ MainRuns
  /\ \E c \in Calls :
       call' = [op |-> c.op, arg |-> c.arg, ran |-> CallRuns,
                sent |-> IF CallRuns THEN CallWrites(c) ELSE <<>>,
                ret |-> FALSE]
  /\ UNCHANGED <<progv, bufv, iov, child, ipc, eof, starts, stops, snap>>

\* is_alive: no process, or process.isalive(), which is waitpid without
\* waiting on a child that was not closed.
MainIsAlive ==
  /\ mpc \in {"new", "idle"} /\ MainRuns
  /\ call' = [NoCall EXCEPT !.op = "is_alive",
                            !.ret = (process = "alive" /\ child # "exited")]
  /\ UNCHANGED <<progv, bufv, iov, child, ipc, eof, starts, stops, snap>>

\* stop is called: running = False.
LifeStop ==
  /\ mpc = "idle" /\ MainRuns
  /\ running' = FALSE
  /\ hist' = HistEnded(hist)
  /\ mpc' = "stop_restore"
  /\ stops' = IF stops = 0 THEN 1 ELSE 2
  /\ snap' = <<running, process, old_tty_settings, term>>
  /\ call' = NoCall
  /\ Quiet
  /\ UNCHANGED <<process, old_tty_settings, term_lines, term_cols, pty_lines,
                 esc_buffer, status, needs_status_redraw, winsize, mdraw, mdims,
                 handv, relayv, bufv, iov, child, ipc, eof,
                 starts>>

\* start is called once more, after a stop and once the relays of the
\* earlier run have ended: nothing in start refuses it.
StartAgain ==
  /\ mpc = "idle" /\ MainRuns
  /\ stops >= 1 /\ rpc = "dead" /\ ipc = "dead"
  /\ starts < MaxStarts
  /\ starts' = starts + 1
  /\ mpc' = "new" /\ rpc' = "off" /\ ipc' = "off"
  /\ child' = "up" /\ eof' = FALSE /\ stops' = 0
  /\ snap' = NoSnap /\ call' = NoCall
  /\ Quiet
  /\ UNCHANGED <<sess, mdraw, mdims, handv, rdraw, rret, rrows, hist, bufv,
                 iov>>

\* The child closes its end of the pty (the relay's next read meets
\* end-of-stream) while waitpid still finds it running ...
ChildCloses ==
  /\ process = "alive" /\ child = "up"
  /\ child' = "closed"
  /\ UNCHANGED <<progv, bufv, iov, ipc, call, eof, starts, stops, snap>>

\* ... and it exits.
ChildExits ==
  /\ process = "alive" /\ child \in {"up", "closed"}
  /\ child' = "exited"
  /\ UNCHANGED <<progv, bufv, iov, ipc, call, eof, starts, stops, snap>>

\* pexpect.EOF in the output relay
LifeEOF ==
  /\ rpc = "read" /\ process = "alive" /\ child # "up"
  /\ running' = FALSE
  /\ hist' = HistEnded(hist)
  /\ rpc' = "restore"
  /\ eof' = TRUE
  /\ Quiet
  /\ UNCHANGED <<process, old_tty_settings, term_lines, term_cols, pty_lines,
                 esc_buffer, status, needs_status_redraw, winsize, mainv, handv,
                 rdraw, rret, rrows, bufv, iov, child, ipc, call, starts, stops,
                 snap>>

\* The input relay, _read_input_unix: the thread begins ...
InputStart ==
  /\ ipc = "off" /\ rpc # "off"
  /\ ipc' = "test"
  /\ UNCHANGED <<progv, bufv, iov, child, call, eof, starts, stops, snap>>

\* ... while self.running: and then os.read(fd, 1024), which waits for
\* input ...
InputTest ==
  /\ ipc = "test"
  /\ ipc' = IF running THEN "read" ELSE "dead"
  /\ UNCHANGED <<progv, bufv, iov, child, call, eof, starts, stops, snap>>

\* ... and os.read returns: nothing or an error (break), a chunk holding a
\* mouse sequence (continue), or a chunk that is sent to the child when
\* the Session runs.
InputKey ==
  /\ ipc = "read"
  /\ \E chunk \in {"none", "mouse", "keys"} :
       ipc' = IF chunk = "none" THEN "dead" ELSE "test"
  /\ UNCHANGED <<progv, bufv, iov, child, call, eof, starts, stops, snap>>

LifeMain ==
  \/ MainCall \/ MainIsAlive
  \/ MainSetState \/ MainDrawStore \/ MainDrawRow1 \/ MainDrawRow2
  \/ MainDrawWrite
  \/ LifeStop \/ MainStopRestore \/ MainStopClose \/ StartAgain
LifeRelay ==
  \/ RelayLoop \/ RelayTimeout \/ LifeEOF \/ RelayError
  \/ RelayRestoreTerminal
LifeInput == InputStart \/ InputTest \/ InputKey
LifeNext ==
  Start \/ LifeMain \/ LifeRelay \/ LifeInput \/ ChildCloses \/ ChildExits

LifeSpec == Init /\ [][LifeNext]_vars

\* Both relay threads are scheduled and a stop that was called runs to its
\* end; nothing makes input arrive at the real terminal.
LifeFair ==
  /\ LifeSpec
  /\ WF_vars(LifeRelay)
  /\ WF_vars(InputStart \/ InputTest)
  /\ WF_vars(MainStopRestore \/ MainStopClose)

(***************************************************************************)
(* The child's input. InSpec follows one action of the orchestrator (send  *)
(* or send_keys, write by write) next to the input relay, which reads the  *)
(* real terminal's input in chunks, and the output relay, which may meet   *)
(* end-of-stream. A byte of the terminal's input is written <<b, k>>: b    *)
(* the byte, k whether the user's key ("key") or the terminal's mouse      *)
(* report ("mouse") produced it; the code sees b only.                     *)
(***************************************************************************)
\* What the user's terminal sends: the key a, the key e-acute (two bytes in
\* UTF-8), a legacy mouse report and an SGR mouse report.
InEvents ==
  { << <<"a", "key">> >>,
    << <<"C3", "key">>, <<"A9", "key">> >>,
    << <<ESC, "mouse">>, <<"[", "mouse">>, <<"M", "mouse">> >>,
    << <<ESC, "mouse">>, <<"[", "mouse">>, <<"<", "mouse">>,
       <<"M", "mouse">> >> }

RECURSIVE Typed(_)
\* The input streams of n events.
Typed(n) ==
  IF n = 0 THEN {<<>>}
  ELSE {s \o e : s \in Typed(n - 1), e \in InEvents} \cup Typed(n - 1)

RECURSIVE Decoded(_)
\* raw_data.decode("utf-8", errors="ignore"), encoded again by
\* process.send: a lead byte without its continuation and a continuation
\* without its lead byte are dropped.
Decoded(raw) ==
  IF raw = <<>> THEN <<>>
  ELSE IF raw[1][1] = "C3"
    THEN IF Len(raw) >= 2 /\ raw[2][1] = "A9"
           THEN <<raw[1], raw[2]>> \o Decoded(SubSeq(raw, 3, Len(raw)))
           ELSE Decoded(Tail(raw))
  ELSE IF raw[1][1] = "A9" THEN Decoded(Tail(raw))
  ELSE <<raw[1]>> \o Decoded(Tail(raw))

\* "\x1b[M" in data or "\x1b[<" in data
HasMouse(data) ==
  \E i \in 1..(Len(data) - 2) :
    data[i][1] = ESC /\ data[i + 1][1] = "[" /\ data[i + 2][1] \in {"M", "<"}

\* The orchestrator's action.
InCalls ==
  [op : {"send"}, arg : {<<"hi">>}]
    \cup [op : {"send_keys"}, arg : {<<"up", "Enter">>}]

\* A faulty variant of SendSteps, which C22 must not survive: the
\* terminator is sent only if the Session still runs.
SendStepsTested(text) ==
  <<[data |-> text, test |-> FALSE], [data |-> "CR", test |-> TRUE]>>

\* send past its test: process.send(text), process.send("\r")
SendSteps(text) ==
  <<[data |-> text, test |-> FALSE], [data |-> "CR", test |-> FALSE]>>

\* A faulty variant of KeySteps, which C21 must not survive: the loop ends
\* after its first key.
KeyStepsFirst(keys) ==
  IF keys = <<>> THEN <<>>
  ELSE <<[data |-> KeyData(keys[1]), test |-> TRUE]>>

\* send_keys: send_key(key), which tests the Session, for each key
KeySteps(keys) ==
  [i \in 1..Len(keys) |-> [data |-> KeyData(keys[i]), test |-> TRUE]]

InInit ==
  /\ SessionUp /\ BufOff
  /\ child = "up" /\ ipc = "test" /\ call = NoCall /\ eof = FALSE
  /\ starts = 1 /\ stops = 0 /\ snap = NoSnap
  /\ child_in = <<>> /\ todo = <<>> /\ shown = <<>> /\ cout = <<>>
  /\ winch = NoWinch /\ loop = NoLoop
  /\ tin \in Typed(MaxTyped)

\* execute_action calls send or send_keys: send's test, and the writes to
\* make.
InCall ==
  /\ mpc = "idle" /\ call = NoCall
  /\ \E c \in InCalls :
       /\ call' = [op |-> c.op, arg |-> c.arg, ran |-> CallRuns,
                   sent |-> <<>>, ret |-> FALSE]
       /\ todo' = IF c.op = "send_keys" THEN KeySteps(c.arg)
                  ELSE IF CallRuns THEN SendSteps(c.arg[1]) ELSE <<>>
  /\ mpc' = "call"
  /\ Quiet
  /\ UNCHANGED <<sess, mdraw, mdims, handv, relayv, hist, bufv, child, ipc,
                 eof, starts, stops, snap, child_in, tin, shown, cout,
                 winch, loop>>

\* The next write of the action (send_keys sleeps after it), or its return.
InWrite ==
  /\ mpc = "call"
  /\ IF todo = <<>>
       THEN mpc' = "idle" /\ UNCHANGED <<todo, call, child_in>>
       ELSE /\ todo' = Tail(todo)
            /\ mpc' = mpc
            /\ IF Head(todo).test => CallRuns
                 THEN /\ child_in' = Append(child_in,
                                            <<"main", Head(todo).data>>)
                      /\ call' = [call EXCEPT
                                    !.sent = Append(@, Head(todo).data)]
                 ELSE UNCHANGED <<call, child_in>>
  /\ Quiet
  /\ UNCHANGED <<sess, mdraw, mdims, handv, relayv, hist, bufv, child, ipc,
                 eof, starts, stops, snap, tin, shown, cout, winch,
                 loop>>

\* The bytes of data as the relay's write puts them into the child's input.
Forwarded(data) ==
  [i \in 1..Len(data) |-> <<"relay", data[i][1], data[i][2]>>]

\* os.read returns the first n bytes the terminal holds; a chunk holding a
\* mouse report is skipped, any other is sent to the child if the Session
\* runs.
InRead ==
  /\ ipc = "read" /\ tin # <<>>
  /\ \E n \in 1..Len(tin) :
       /\ tin' = SubSeq(tin, n + 1, Len(tin))
       /\ child_in' =
            IF ~HasMouse(Decoded(SubSeq(tin, 1, n))) /\ CallRuns
              THEN child_in \o Forwarded(Decoded(SubSeq(tin, 1, n)))
              ELSE child_in
  /\ ipc' = "test"
  /\ UNCHANGED <<progv, bufv, child, call, eof, starts, stops, snap, todo,
                 shown, cout, winch, loop>>

InNext ==
  \/ InCall \/ InWrite \/ InputTest \/ InRead
  \/ RelayAppend \/ RelayLoop \/ RelayTimeout \/ RelayEOF
  \/ RelayRestoreTerminal

InSpec == InInit /\ [][InNext]_vars

(***************************************************************************)
(* The escape tracker on whole streams. Spec cuts the accumulator at       *)
(* MaxSeq; TrackSpec hands _track_escape_sequence every stream of up to    *)
(* MaxTrack characters and streams that reach its cap, with the overlay    *)
(* drawn, and follows the relay through the restore the tracker asks for.  *)
(***************************************************************************)
TrackChars == Chars \cup {"~"}

RECURSIVE Streams(_)
\* The streams of up to n characters.
Streams(n) ==
  IF n = 0 THEN {<<>>}
  ELSE {Append(s, c) : s \in Streams(n - 1), c \in TrackChars}
         \cup Streams(n - 1)

\* ESC [ and k digits, then a final character or a reset of the region.
LongStreams ==
  {<<ESC, "[">> \o [i \in 1..k |-> "2"] \o e :
     k \in (ESC_CAP - 3)..ESC_CAP,
     e \in {<<"r">>, <<"~">>, <<"2", "[", "r">>, <<ESC, "[", "r">>}}

TrackInit ==
  /\ \E st \in Texts : SessionShowing(st)
  /\ BufOff /\ LifeOff
  /\ child_in = <<>> /\ tin = <<>> /\ todo = <<>> /\ shown = <<>>
  /\ winch = NoWinch /\ loop = NoLoop
  /\ cout \in Streams(MaxTrack) \cup LongStreams

\* read_nonblocking returns the next character of the child: it is written
\* to the terminal and handed to _track_escape_sequence.
TrackChar ==
  /\ rpc = "read" /\ process = "alive" /\ cout # <<>>
  /\ term' = TermChar(term, Head(cout))
  /\ esc_buffer' = TrackBuffer(esc_buffer, Head(cout))
  /\ rpc' = IF TrackMatches(esc_buffer, Head(cout)) THEN "rs_fmt"
            ELSE "append"
  /\ hist' = [hist EXCEPT
        !.cs = NextCs(hist.cs, Head(cout)),
        !.need = hist.need \/ ChildResets(hist.cs, Head(cout)),
        !.reset = ChildResets(hist.cs, Head(cout)),
        !.owed = hist.owed \/ (status[1] # ""
                   /\ (ChildResets(hist.cs, Head(cout))
                         \/ ChildClears(hist.cs, Head(cout))))]
  /\ cout' = Tail(cout)
  /\ nout' = nout + 1
  /\ UNCHANGED <<running, process, old_tty_settings, term_lines, term_cols,
                 pty_lines, status, needs_status_redraw, winsize, mainv, handv,
                 rdraw, rret, rrows, screen_buffer, napp, lock, bpc, gpc,
                 gseen, lifev, child_in, tin, todo, shown, winch,
                 loop>>

TrackNext ==
  \/ RelayLoop \/ TrackChar \/ RelayRestoreFmt \/ RelayRestoreWrite
  \/ RelayRestoreText \/ RelayDrawStore \/ RelayDrawRow1 \/ RelayDrawRow2
  \/ RelayDrawWrite \/ RelayAppend

TrackSpec == TrackInit /\ [][TrackNext]_vars

(***************************************************************************)
(* The screen state and the speech-start handler. The screen buffer is a   *)
(* sequence of tokens <<t, k>>: t is a character (ESC, BEL, NL, a digit,   *)
(* a punctuation mark) or a run of characters the code never looks inside  *)
(* ("Proceed?", "y/n"), and k says what the child meant by it: "seq" a     *)
(* token of a control sequence, "text" displayed text, "glyph", "yesno",   *)
(* "num" and "word" the displayed token that makes a selection marker, a   *)
(* bracketed yes/no prompt, a numbered line, a decision word. The code     *)
(* sees t only.                                                            *)
(***************************************************************************)
NL == "NL"
BEL == "BEL"
GLYPH == "GLYPH"

Tag(toks, k) == [i \in 1..Len(toks) |-> <<toks[i], k>>]
Mark(toks, i, k) == [Tag(toks, "text") EXCEPT ![i] = <<toks[i], k>>]

\* What the child writes: control sequences (CSI with and without
\* parameters, CSI of a private mode, OSC), prompts, and text that is no
\* prompt. Every piece may stand before and after every other.
Pieces ==
  { Tag(<<ESC, "[", "0", "m">>, "seq"),
    Tag(<<ESC, "[", "m">>, "seq"),
    Tag(<<ESC, "[", "?", "1", "l">>, "seq"),
    Tag(<<ESC, "]", "0", ";", "a", BEL>>, "seq"),
    Tag(<<"a">>, "text"),
    Tag(<<"Listening", " ", "for", " ", "input...">>, "text"),
    Mark(<<GLYPH, " ", "Yes">>, 1, "glyph"),
    Mark(<<"Proceed?", " ", "[", "y/n", "]">>, 4, "yesno"),
    Mark(<<"[", "Yes/No", "]">>, 2, "yesno"),
    Tag(<<"[">>, "text") \o Tag(<<ESC, "[", "1", "m">>, "seq")
      \o <<<<"Y/N", "yesno">>>> \o Tag(<<ESC, "[", "m">>, "seq")
      \o Tag(<<"]">>, "text"),
    Tag(<<"[", "y", "]">>, "text"),
    Tag(<<"(", "yes/no", ")">>, "text"),
    Mark(<<NL, " ", "1", ".", " ", "Yes", NL>>, 3, "num"),
    Tag(<<NL, "1", ".", "x", NL>>, "text"),
    Tag(<<" ", "v", "1", ".", " ", "x", " ">>, "text"),
    Mark(<<" ", "Allow", " ">>, 2, "word"),
    Mark(<<":", "deny", "?">>, 2, "word"),
    Mark(<<" ", "PERMIT", NL>>, 2, "word"),
    Tag(<<" ", "allow", "ed", " ">>, "text") }

RECURSIVE Screens(_)
\* The screens of up to n pieces.
Screens(n) ==
  IF n = 0 THEN {<<>>}
  ELSE {s \o p : s \in Screens(n - 1), p \in Pieces} \cup Screens(n - 1)

\* A screen of more lines than get_screen_state keeps: a selection marker
\* on its first line.
LongScreen ==
  Mark(<<GLYPH, " ", "Yes">>, 1, "glyph")
    \o Tag([i \in 1..LINES_KEPT |-> NL], "text") \o Tag(<<"a">>, "text")

RECURSIVE MatchEnd(_, _, _, _)
\* Where the match of body* final that starts at t[j] ends; 0 if there is
\* none.
MatchEnd(t, j, body, final) ==
  IF j > Len(t) THEN 0
  ELSE IF t[j][1] \in final THEN j
  ELSE IF t[j][1] \in body THEN MatchEnd(t, j + 1, body, final)
  ELSE 0

RECURSIVE Sub(_, _, _, _)
\* re.sub(ESC intro body* final, '', t): the matches are taken from left to
\* right.
Sub(t, intro, body, final) ==
  IF t = <<>> THEN <<>>
  ELSE IF /\ Len(t) >= 2 /\ t[1][1] = ESC /\ t[2][1] = intro
          /\ MatchEnd(t, 3, body, final) > 0
    THEN Sub(SubSeq(t, MatchEnd(t, 3, body, final) + 1, Len(t)),
             intro, body, final)
  ELSE <<t[1]>> \o Sub(Tail(t), intro, body, final)

RECURSIVE Kept(_, _)
\* '\n'.join(text.split('\n')[-n:])
Kept(t, n) ==
  IF Cardinality({i \in 1..Len(t) : t[i][1] = NL}) < n THEN t
  ELSE Kept(Tail(t), n)

\* The tokens of the screen: a run of characters, where the code looks at
\* characters, is what its first and its last character are.
Digits == {"0", "1"}
Letters == {"m", "l", "a", "x", "v", "y"}
WordEnd ==
  Digits \cup Letters
    \cup {"Yes", "ed", "Allow", "allow", "deny", "PERMIT", "Listening",
          "for", "y/n", "Y/N", "yes/no", "Yes/No"}
WordStart == WordEnd \cup {"Proceed?", "input..."}
Tokens ==
  WordStart \cup {ESC, BEL, NL, GLYPH, " ", "[", "]", "?", ";", ".", ":", "(",
                  ")"}

\* get_screen_state: the two substitutions, then the last lines.
ScreenState(buf) ==
  Kept(Sub(Sub(buf, "[", Digits \cup {";"}, Letters),
           "]", Tokens \ {BEL}, {BEL}),
       LINES_KEPT)

\* re.search(r'(?m)^\s*\d+\.\s+\w+', text) on the tokens t
NumberedLine(t) ==
  LET n == Len(t)
      Spaces(a, b) == \A p \in a..b : t[p] \in {" ", NL}
  IN \E i \in 1..n :
       /\ i = 1 \/ t[i - 1] = NL
       /\ \E j \in i..n :
            /\ Spaces(i, j - 1) /\ t[j] \in Digits
            /\ \E d \in j..(n - 3) :
                 /\ \A p \in j..d : t[p] \in Digits
                 /\ t[d + 1] = "." /\ t[d + 2] \in {" ", NL}
                 /\ \E k \in (d + 3)..n :
                      Spaces(d + 2, k - 1) /\ t[k] \in WordStart

\* re.search(r'\b(allow|deny|...|refuse)\b', text, flags=re.IGNORECASE)
DecisionWord(t) ==
  \E i \in 1..Len(t) :
    /\ Lower(t[i]) \in {"allow", "deny", "approve", "reject", "permission",
                         "permit", "grant", "refuse"}
    /\ i = 1 \/ t[i - 1] \notin WordEnd
    /\ i = Len(t) \/ t[i + 1] \notin WordStart

\* A faulty variant of HasMenuPrompt, which C29 must not survive: a
\* numbered line or a decision word is enough.
HasMenuPromptEither(text) ==
  LET t == [i \in 1..Len(text) |-> text[i][1]]
  IN \/ \E i \in 1..Len(t) : t[i] = GLYPH
     \/ \E i \in 1..(Len(t) - 2) :
          /\ t[i] = "[" /\ t[i + 2] = "]"
          /\ t[i + 1] \in {"y/n", "Y/N", "yes/no", "Yes/No"}
     \/ NumberedLine(t) \/ DecisionWord(t)

\* has_menu_prompt on the screen state.
HasMenuPrompt(text) ==
  LET t == [i \in 1..Len(text) |-> text[i][1]]
  IN \/ \E i \in 1..Len(t) : t[i] = GLYPH
     \/ \E i \in 1..(Len(t) - 2) :
          /\ t[i] = "[" /\ t[i + 2] = "]"
          /\ t[i + 1] \in {"y/n", "Y/N", "yes/no", "Yes/No"}
     \/ NumberedLine(t) /\ DecisionWord(t)

TextInit ==
  /\ SessionUp
  /\ screen_buffer \in Screens(MaxPieces) \cup {LongScreen}
  /\ nout = Len(screen_buffer) /\ napp = 0
  /\ lock = "none" /\ bpc = "idle" /\ gpc = "off" /\ gseen = 0
  /\ LifeOff /\ IoOff

\* _on_speech_start: set_state(State.SPEAKING) and its draw of the overlay
SpeechStart ==
  /\ mpc = "idle" /\ MainRuns /\ call = NoCall
  /\ call' = [NoCall EXCEPT !.op = "speech"]
  /\ \E t \in Texts :
       IF running
         THEN mdraw' = [NoDraw EXCEPT !.l1 = t[1], !.l2 = t[2]]
              /\ mpc' = "d_store"
         ELSE UNCHANGED <<mdraw, mpc>>
  /\ Quiet
  /\ UNCHANGED <<sess, mdims, handv, relayv, hist, bufv, child, ipc, eof,
                 starts, stops, snap, iov>>

\* A faulty variant of SpeechMenu, which C30 must not survive: the escape
\* is sent whatever has_menu_prompt says.
SpeechMenuAlways ==
  /\ mpc = "idle" /\ MainRuns /\ call.op = "speech" /\ call.arg = <<>>
  /\ lock = "none"
  /\ shown' = ScreenState(screen_buffer)
  /\ call' = [call EXCEPT !.arg = <<HasMenuPrompt(shown')>>,
                          !.ran = CallRuns]
  /\ todo' = IF CallRuns
               THEN <<[data |-> KeyData("escape"), test |-> TRUE]>>
               ELSE <<>>
  /\ mpc' = "call"
  /\ Quiet
  /\ UNCHANGED <<sess, mdraw, mdims, handv, relayv, hist, bufv, child, ipc,
                 eof, starts, stops, snap, child_in, tin, cout, winch,
                 loop>>

\* ... then has_menu_prompt(), which asks get_screen_state() under the
\* buffer's lock, and if it is false send_escape(): its test of the
\* Session, and the write send_key("escape") has to make.
SpeechMenu ==
  /\ mpc = "idle" /\ MainRuns /\ call.op = "speech" /\ call.arg = <<>>
  /\ lock = "none"
  /\ shown' = ScreenState(screen_buffer)
  /\ call' = [call EXCEPT !.arg = <<HasMenuPrompt(shown')>>,
                          !.ran = ~HasMenuPrompt(shown') /\ CallRuns]
  /\ todo' = IF ~HasMenuPrompt(shown') /\ CallRuns
               THEN <<[data |-> KeyData("escape"), test |-> TRUE]>>
               ELSE <<>>
  /\ mpc' = "call"
  /\ Quiet
  /\ UNCHANGED <<sess, mdraw, mdims, handv, relayv, hist, bufv, child, ipc,
                 eof, starts, stops, snap, child_in, tin, cout, winch,
                 loop>>

TextNext ==
  \/ SpeechStart \/ MainDrawStore \/ MainDrawRow1 \/ MainDrawRow2
  \/ MainDrawWrite \/ SpeechMenu \/ InWrite
  \/ RelayAppend \/ RelayLoop \/ RelayEOF \/ RelayRestoreTerminal

TextSpec == TextInit /\ [][TextNext]_vars

(***************************************************************************)
(* Properties.                                                             *)
(***************************************************************************)
SessionRegion == [top |-> 1, bot |-> pty_lines]
HandlerIdle == hpc \in {"off", "idle"}
StartDone == mpc \notin {"new", "start_reserve"}
\* The relay is in the draw_status_bar call of its timeout branch.
InTimeoutDraw ==
  \/ rpc = "t_call"
  \/ rpc \in {"d_store", "d_row1", "d_row2", "d_write"} /\ rret = "loop"
DrawsOverlay == MainDrawWrite \/ RelayDrawWrite
RelayAlive == rpc \notin {"off", "restore", "dead"}

\* C1: while the session is running, the scroll region in force on the
\* terminal is (1, child rows); the moments in which a resize handler is
\* executing or the relay is about to re-issue the region after ESC [ r are
\* left out, and so is a relay that has ended.
C1_RegionWhileRunning ==
  (running /\ HandlerIdle /\ RelayAlive /\ ~hist.need)
     => term.region = SessionRegion

\* C2: when a resize handler completes while the session is running, the
\* scroll region in force on the terminal is (1, child rows), the child rows
\* being those the handler computed; a relay that has ended or is about to
\* re-issue the region after ESC [ r is left out.
C2_RegionAfterResize ==
  [][(ResizeFinish /\ running /\ RelayAlive /\ ~hist.need)
        => term'.region = [top |-> 1, bot |-> pty_lines']]_vars

\* C3: once start has reserved the overlay rows, and whenever no resize
\* handler is in the middle of its execution, child rows + 2 = terminal rows;
\* a size query that fails at start gives 24 rows and 22 child rows.
C3_ChildRows ==
  (StartDone /\ HandlerIdle) =>
     /\ pty_lines + 2 = term_lines
     /\ <<term_lines, term_cols>> \in Sizes \cup {<<24, 80>>}
C3_Witness ==
  /\ mpc = "idle" /\ hpc = "idle" /\ hist.geom = "stale"
  /\ term_lines = 6 /\ pty_lines = 4 /\ winsize = <<4, 40>>

C5_FlagSetOnReset ==
  (hist.reset /\ rpc = "append" /\ status[1] # "" /\ mpc = "idle")
     => needs_status_redraw

\* C6: when a timeout of the relay ends while the session is running and no
\* other draw is in progress, the overlay has been drawn since the child last
\* cleared the screen or reset the scroll region.
C6_RedrawnByIdle ==
  [][(RelayTimeout /\ rpc' = "loop" /\ running /\ mpc = "idle")
        => ~hist.owed]_vars

\* C7: every overlay draw is written by the relay thread, and none arrives
\* in the middle of a control sequence of the child.
C7_SingleWriter ==
  [][DrawsOverlay => (RelayDrawWrite /\ term.seq = <<>>)]_vars

\* C8: every overlay draw is the one the relay makes in its timeout branch.
C8_DrawOnlyWhenIdle ==
  [][DrawsOverlay => (RelayDrawWrite /\ rret = "loop")]_vars

\* C9: once a resize has completed with overlay text set and the session
\* running, then, unless the session stops, the relay ends or a further
\* resize begins, the relay eventually has drawn the overlay at the
\* session's geometry and the redraw flag is false.
C9_RedrawAfterResize ==
  (hist.geom = "stale" /\ hpc = "idle" /\ status[1] # "" /\ running)
    ~> \/ ~running \/ rpc = "dead" \/ hpc # "idle"
       \/ hist.geom = "redrawn" /\ ~needs_status_redraw
C9_Witness ==
  /\ hist.geom = "redrawn" /\ ~needs_status_redraw /\ running
  /\ hpc = "idle" /\ rpc = "loop" /\ status[1] # ""

\* C10 as claimed: whenever the relay has cleared the redraw flag and is not
\* in the draw call that follows, the overlay has been drawn.
C10_ClearedOnlyWithDraw == hist.cleared => InTimeoutDraw

\* C10 as amended: the relay clears the flag and then calls draw_status_bar,
\* which draws unless the session has stopped running in between; and while
\* the session runs a resize that has completed is either still flagged or
\* being drawn or has been drawn at the session's geometry.
C10_ClearedThenDrawn ==
  /\ (hist.cleared /\ ~InTimeoutDraw) => ~running
  /\ (hist.geom = "stale" /\ ~needs_status_redraw /\ hpc = "idle" /\ running)
       => InTimeoutDraw
C10_Witness ==
  /\ hist.cleared /\ rpc = "d_write" /\ needs_status_redraw
  /\ hist.geom = "stale" /\ hpc = "idle" /\ running

\* C11: whenever the relay is not in the middle of an append, the screen
\* buffer holds at most SCREEN_BUFFER_SIZE characters, and they are the
\* last characters appended: the whole output while that is no longer than
\* the capacity, its last SCREEN_BUFFER_SIZE characters afterwards.
C11_BufferIsSuffix ==
  bpc = "idle" =>
    /\ Len(screen_buffer) <= SCREEN_BUFFER_SIZE
    /\ screen_buffer =
         IF nout <= SCREEN_BUFFER_SIZE THEN Out(1, nout)
         ELSE Out(nout - SCREEN_BUFFER_SIZE + 1, nout)
C11_Witness ==
  /\ bpc = "idle" /\ napp >= 2 /\ nout > SCREEN_BUFFER_SIZE
  /\ Len(screen_buffer) = SCREEN_BUFFER_SIZE
  /\ screen_buffer[1] = nout - SCREEN_BUFFER_SIZE + 1

\* C12: the relay appends and trims, and get_screen_state reads, only while
\* holding the buffer lock, and what get_screen_state reads is never longer
\* than SCREEN_BUFFER_SIZE.
C12_LockedBuffer ==
  /\ bpc \in {"add", "trim", "release"} => lock = "relay"
  /\ gpc \in {"read", "release"} => lock = "reader"
  /\ gseen <= SCREEN_BUFFER_SIZE
C12_Witness ==
  /\ bpc = "trim" /\ Len(screen_buffer) > SCREEN_BUFFER_SIZE
  /\ gpc = "idle" /\ gseen = SCREEN_BUFFER_SIZE

\* The state stop acts on.
StopState == <<running, process, old_tty_settings, term>>

C14_RestoredOnce ==
  [][(MainStopRestore /\ eof /\ stops = 1 /\ snap[1] = FALSE)
       => old_tty_settings]_vars

C17_EndClearsRunning == rpc \in {"restore", "dead"} => ~running

\* C18: is_alive called after the output relay met end-of-stream returns
\* false.
C18_DeadAfterEOF == [][(MainIsAlive /\ eof) => ~call'.ret]_vars

\* C19: after stop both relays end.
C19_RelaysExit ==
  (stops >= 1) ~> (rpc \in {"off", "dead"} /\ ipc \in {"off", "dead"})

\* The symbolic key names C20 lists.
KeyNames ==
  {"enter", "escape", "esc", "up", "down", "left", "right", "tab",
   "shift+tab", "backtab", "backspace", "delete", "home", "end"}

\* C20 as stated: the names listed are mapped, every other name is sent as
\* it is.
C20_SendKeyListed ==
  (call.op = "send_key" /\ call.ran) =>
    call.sent = <<IF Lower(call.arg[1]) \in KeyNames
                    THEN key_map[Lower(call.arg[1])]
                    ELSE call.arg[1]>>

\* C20: while the Session runs send_key writes once to the child: the
\* mapped sequence when the name in lower case is one of the listed names
\* or "return", the name as given otherwise (a single character included).
C20_SendKeyBytes ==
  (call.op = "send_key" /\ call.ran) =>
    call.sent = <<IF Lower(call.arg[1]) \in KeyNames \cup {"return"}
                    THEN key_map[Lower(call.arg[1])]
                    ELSE call.arg[1]>>
C20_Witness ==
  /\ running /\ call.op = "send_key" /\ call.ran
  /\ call.arg = <<"RETURN">> /\ call.sent = <<"CR">>

\* The data send_keys sends for its keys.
Mapped(keys) == [i \in 1..Len(keys) |-> KeyData(keys[i])]

\* C21: when send_keys returns, what it has sent to the child is the mapped
\* data of the first keys of the list, in list order, one write for each,
\* and of all the keys when the Session still runs.
C21_SendKeysInOrder ==
  (call.op = "send_keys" /\ mpc = "idle") =>
    /\ Len(call.sent) <= Len(call.arg)
    /\ call.sent = SubSeq(Mapped(call.arg), 1, Len(call.sent))
    /\ running => call.sent = Mapped(call.arg)
C21_Witness ==
  /\ call.op = "send_keys" /\ mpc = "idle" /\ running
  /\ call.sent = <<"ESC[A", "CR">>
  /\ \E i \in 1..Len(child_in) : child_in[i][1] = "relay"

\* C22: when a send that found the Session running returns, it has written
\* the text and then the carriage return, and nothing else, also when the
\* running flag was cleared in between; a send that found it not running
\* has written nothing.
C22_SendTextThenCR ==
  (call.op = "send" /\ mpc = "idle") =>
    call.sent = IF call.ran THEN <<call.arg[1], "CR">> ELSE <<>>
C22_Witness ==
  /\ call.op = "send" /\ mpc = "idle" /\ ~running
  /\ call.sent = <<"hi", "CR">>

\* C23: in the child's input no byte forwarded by the input relay lies
\* between two writes of the orchestrator's action.
C23_NoForwardInsideAction ==
  \A i, j, k \in 1..Len(child_in) :
    (i < j /\ j < k) =>
      ~(child_in[i][1] = "main" /\ child_in[j][1] = "relay"
          /\ child_in[k][1] = "main")

\* The bytes the user's keys produced, among the bytes s of the terminal's
\* input.
KeyBytes(s) == SelectSeq(s, LAMBDA b : b[2] = "key")

\* What a step has appended to the child's input.
Appended == SubSeq(child_in', Len(child_in) + 1, Len(child_in'))

\* C24: while the Session runs, the key bytes of every chunk the input
\* relay reads are appended to the child's input, unchanged and in the
\* order read, whatever else the chunk holds.
C24_KeysForwarded ==
  [][(InRead /\ CallRuns) =>
       Forwarded(KeyBytes(SubSeq(tin, 1, Len(tin) - Len(tin'))))
         = SelectSeq(Appended, LAMBDA w : w[3] = "key")]_vars

\* C25: no byte of a mouse report is forwarded to the child.
C25_NoMouseForwarded ==
  \A i \in 1..Len(child_in) :
    child_in[i][1] = "relay" => child_in[i][3] # "mouse"

Displayed(buf) == SelectSeq(buf, LAMBDA w : w[2] # "seq")

\* C27: what get_screen_state returns is the displayed text of the buffer,
\* nothing of a CSI or OSC sequence left in it (its last LINES_KEPT lines),
\* and stripping it again changes nothing.
C27_StripsToText ==
  (call.op = "speech" /\ call.arg # <<>>) =>
    /\ shown = Kept(Displayed(screen_buffer), LINES_KEPT)
    /\ ScreenState(shown) = shown

\* Whether the screen state holds a token the child meant as k.
Shows(k) == \E i \in 1..Len(shown) : shown[i][2] = k

\* C29: has_menu_prompt is true exactly when the screen state holds a
\* selection marker, or a bracketed yes/no prompt, or both a numbered line
\* and a decision word; true on "Proceed? [y/n]", false on "Listening for
\* input...".
C29_MenuPrompt ==
  (call.op = "speech" /\ call.arg # <<>>) =>
    call.arg[1] = (\/ Shows("glyph") \/ Shows("yesno")
                   \/ Shows("num") /\ Shows("word"))
C29_Witness ==
  /\ call.op = "speech" /\ call.arg = <<TRUE>>
  /\ shown = Mark(<<"Proceed?", " ", "[", "y/n", "]">>, 4, "yesno")

\* C30: when the speech-start handler has returned, the child has received
\* nothing from it if has_menu_prompt was true, and the escape key, once, if
\* it was false and the Session runs; it never receives anything else.
C30_EscapeUnlessMenu ==
  (call.op = "speech" /\ call.arg # <<>> /\ mpc = "idle") =>
    /\ call.arg[1] => child_in = <<>>
    /\ (~call.arg[1] /\ running) => child_in = <<<<"main", "ESC">>>>
    /\ child_in \in {<<>>, <<<<"main", "ESC">>>>}
C30_Witness ==
  /\ call.op = "speech" /\ call.arg = <<FALSE>> /\ mpc = "idle"
  /\ child_in = <<<<"main", "ESC">>>>
  /\ shown = Tag(<<"Listening", " ", "for", " ", "input...">>, "text")

\* The rows of the draw d are the two reserved rows of one geometry, and
\* both lie below the child's rows.
Reserved(d) == d.r2 = d.r1 + 1 /\ d.r1 > pty_lines

\* C28: every overlay draw that reaches the terminal writes the rows
\* lines - 1 and lines of one reading of the geometry, and neither row is
\* one of the child's rows.
C28_DrawInReservedRows ==
  [][/\ MainDrawWrite => Reserved(mdraw)
     /\ RelayDrawWrite => Reserved(rdraw)]_vars

\* C34: a call of the tracker goes on to the restore of the region exactly
\* when the character it is given completes ESC [ r in the child's stream,
\* whatever the accumulator held before.
C34_RestorePerReset ==
  [][TrackChar => ((rpc' = "rs_fmt") <=> hist'.reset)]_vars
C34_Witness ==
  /\ rpc = "rs_fmt" /\ hist.reset /\ nout > ESC_CAP /\ cout = <<>>

\* C35: once start has run, and whenever no resize handler is in the middle
\* of its execution, the window size last given to the child's PTY is
\* (child rows, terminal columns).
C35_ChildWindow ==
  (StartDone /\ HandlerIdle /\ process = "alive") =>
    winsize = <<pty_lines, term_cols>>

\* C33: once stop has closed the child and returned, the scroll region of
\* the terminal is the full screen, and no step of the Session sets a scroll
\* region or draws the overlay.
C33_QuietAfterStop ==
  [][(process = "closed" /\ mpc = "idle") =>
       /\ term.region = FullRegion
       /\ ~(ResizeRegion \/ RelayRestoreWrite \/ DrawsOverlay)]_vars

(***************************************************************************)
(* The resize handler alone. WinchSpec starts from a session that is up,   *)
(* gives _handle_resize a bounded sequence of resize notifications, some   *)
(* of which find os.get_terminal_size failing, and records in winch.out    *)
(* what the handler writes to the terminal: <<"s", 0>> for ESC [ s,        *)
(* <<"H", n>> for ESC [ n ; 1 H, <<"K", 2>> for ESC [ 2 K, <<"u", 0>> for  *)
(* ESC [ u and <<"r", n>> for ESC [ 1 ; n r. winch.done lists the answers  *)
(* the handler has been given.                                             *)
(***************************************************************************)
MaxResizes == 3

\* os.get_terminal_size raising OSError.
QueryFails == <<0, 0>>

Notices(n) ==
  UNION {[1..k -> Sizes \cup {QueryFails}] : k \in 0..n}

\* for line in range(first, last + 1): output += ESC [ line ; 1 H ESC [ 2 K
RECURSIVE BlankLines(_, _)
BlankLines(first, last) ==
  IF first > last THEN <<>>
  ELSE <<<<"H", first>>, <<"K", 2>>>> \o BlankLines(first + 1, last)

\* A faulty variant of ResizeOutput, which C32 must not survive: the
\* blanking starts at the last row of the child's new region.
ResizeOutputFromLast(new, old) ==
  (IF new < old
     THEN <<<<"s", 0>>>> \o BlankLines(new, old) \o <<<<"u", 0>>>>
     ELSE <<>>) \o <<<<"r", new>>>>

\* What the handler writes: when the child rows shrink, the blanking of the
\* rows given up between a save and a restore of the cursor, and always the
\* scroll region.
ResizeOutput(new, old) ==
  (IF new < old
     THEN <<<<"s", 0>>>> \o BlankLines(new + 1, old) \o <<<<"u", 0>>>>
     ELSE <<>>) \o <<<<"r", new>>>>

WinchInit ==
  /\ \E st \in {NoText} \cup Texts : SessionShowing(st)
  /\ BufOff /\ LifeOff
  /\ child_in = <<>> /\ tin = <<>> /\ todo = <<>> /\ shown = <<>>
  /\ cout = <<>> /\ loop = NoLoop
  /\ \E q \in Notices(MaxResizes) :
       winch = [todo |-> q, out |-> <<>>, done |-> <<>>]

\* A faulty variant of WinchQuery, which C36 must not survive: a failing
\* query falls back to 24 x 80, as start does.
WinchQueryFallback ==
  /\ hpc = "idle" /\ winch.todo # <<>>
  /\ LET s == IF Head(winch.todo) = QueryFails
                THEN <<DefaultLines, DefaultCols>> ELSE Head(winch.todo)
     IN /\ hold' = pty_lines
        /\ term_lines' = s[1]
        /\ term_cols' = s[2]
        /\ hpc' = "h_pty"
  /\ winch' = [winch EXCEPT !.todo = Tail(@),
                            !.done = Append(@, Head(winch.todo))]
  /\ Quiet
  /\ UNCHANGED <<running, process, old_tty_settings, pty_lines, esc_buffer,
                 status, needs_status_redraw, winsize, mainv, relayv, hist,
                 bufv, lifev, child_in, tin, todo, shown, cout, loop>>

\* The handler is run for the next notification. os.get_terminal_size():
\* OSError, and the handler passes and returns; or a size, and then
\* old_pty_lines, term_lines and term_cols are assigned.
WinchQuery ==
  /\ hpc = "idle" /\ winch.todo # <<>>
  /\ IF Head(winch.todo) = QueryFails
       THEN UNCHANGED <<hpc, hold, term_lines, term_cols>>
       ELSE /\ hold' = pty_lines
            /\ term_lines' = Head(winch.todo)[1]
            /\ term_cols' = Head(winch.todo)[2]
            /\ hpc' = "h_pty"
  /\ winch' = [winch EXCEPT !.todo = Tail(@),
                            !.done = Append(@, Head(winch.todo))]
  /\ Quiet
  /\ UNCHANGED <<running, process, old_tty_settings, pty_lines, esc_buffer,
                 status, needs_status_redraw, winsize, mainv, relayv, hist,
                 bufv, lifev, child_in, tin, todo, shown, cout, loop>>

\* The blanking string, if any, and the scroll region, flushed together.
WinchRegion ==
  /\ hpc = "h_region"
  /\ term' = TermSetRegion(IF BlankedRows(pty_lines, hold) # {}
                              THEN TermBlank(term) ELSE term, pty_lines)
  /\ winch' = [winch EXCEPT !.out = @ \o ResizeOutput(pty_lines, hold)]
  /\ hold' = 0
  /\ hpc' = "h_finish"
  /\ UNCHANGED <<sess, mainv, relayv, hist, bufv, lifev, child_in, tin, todo,
                 shown, cout, loop>>

WinchNext == WinchQuery \/ ResizePty \/ WinchRegion \/ ResizeFinish

WinchSpec == WinchInit /\ [][WinchNext]_vars

\* The handler has been called and os.get_terminal_size is about to fail.
QueryToFail ==
  hpc = "idle" /\ winch.todo # <<>> /\ Head(winch.todo) = QueryFails

\* C36: when the size query fails inside the resize handler, the handler
\* returns having changed none of terminal rows, terminal columns, child
\* rows, the needs-redraw flag and the child's window size, and having
\* written nothing to the terminal.
C36_FailedQueryInert ==
  [][QueryToFail =>
       /\ UNCHANGED <<term_lines, term_cols, pty_lines, needs_status_redraw,
                      winsize, term>>
       /\ winch'.out = winch.out
       /\ hpc' = "idle"]_vars
C36_Witness ==
  /\ winch.done = <<<<6, 40>>, QueryFails>> /\ hpc = "idle"
  /\ term_lines = 6 /\ pty_lines = 4 /\ winsize = <<4, 40>>
  /\ needs_status_redraw

\* What a step of the handler has added to its output.
Written == SubSeq(winch'.out, Len(winch.out) + 1, Len(winch'.out))

\* The rows a piece of output blanks: those it moves the cursor to and then
\* erases.
RowsErased(w) ==
  {w[i][2] : i \in {j \in 1..(Len(w) - 1) :
                      w[j][1] = "H" /\ w[j + 1] = <<"K", 2>>}}

\* C32: the handler's write for a resize blanks exactly the rows from the new
\* child rows + 1 to the old child rows, between a save and a restore of the
\* cursor and before the scroll region is set; when the child rows grow or
\* stay, it erases nothing.
C32_BlanksRowsGivenUp ==
  [][(hpc = "h_region" /\ process = "alive") =>
       LET w == Written
           old == winsize[1]
           erased == {i \in 1..Len(w) : w[i][1] = "K"}
       IN /\ w # <<>> /\ w[Len(w)] = <<"r", pty_lines>>
          /\ RowsErased(w) = {r \in 1..DefaultLines : pty_lines < r /\ r <= old}
          /\ \A i \in erased : i > 1 /\ w[i - 1][1] = "H"
          /\ erased # {} =>
               /\ w[1] = <<"s", 0>> /\ w[Len(w) - 1] = <<"u", 0>>
               /\ \A i \in erased : 1 < i /\ i < Len(w) - 1]_vars
C32_Witness ==
  /\ hpc = "h_finish" /\ pty_lines = 4 /\ winsize[1] = 22
  /\ <<"K", 2>> \in {winch.out[i] : i \in 1..Len(winch.out)}
  /\ winch.done = <<<<24, 80>>, <<6, 40>>>>

(***************************************************************************)
(* The main loop. LoopSpec follows VoiceClaude.run on a session that is    *)
(* up: set_state stores the state and, if the Session runs, draws the      *)
(* overlay (the draw is made by MainDrawStore .. MainDrawWrite before the  *)
(* loop goes on); loop.seen lists the states set since the top of the      *)
(* iteration. An action of the agent is [tool, arg]: arg is <<>> when the  *)
(* argument the tool reads is missing from args.                           *)
(***************************************************************************)
MaxTurns == 2

STATE_DISPLAY ==
  [s \in {"LISTENING", "SPEAKING", "TRANSCRIBING", "AGENT_PROCESSING",
          "CLAUDE_WORKING"} |->
     CASE s = "LISTENING" -> "Listening..."
       [] s = "SPEAKING" -> "Speaking..."
       [] s = "TRANSCRIBING" -> "Transcribing..."
       [] s = "AGENT_PROCESSING" -> "Processing..."
       [] s = "CLAUDE_WORKING" -> "Working"]

\* What the agent may answer: each tool with its argument and without, and
\* a tool execute_action does not know.
Actions ==
  [tool : {"send_text"}, arg : {<<"hi">>, <<>>}]
    \cup [tool : {"send_keys"}, arg : {<<"up", "Enter">>, <<>>}]
    \cup [tool : {"send_key"}, arg : {<<"Enter">>, <<>>}]
    \cup [tool : {"send_escape", "wait"}, arg : {<<>>}]

\* run's text for the overlay: tool_name(args)
Detail(a) ==
  CASE a.tool = "send_text" ->
         (IF a.arg = <<>> THEN "send_text(\"\")" ELSE "send_text(\"hi\")")
    [] a.tool = "send_keys" ->
         (IF a.arg = <<>> THEN "send_keys([])"
          ELSE "send_keys(['up', 'Enter'])")
    [] a.tool = "send_escape" -> "send_escape()"
    [] a.tool = "send_key" ->
         (IF a.arg = <<>> THEN "send_key({})"
          ELSE "send_key({'key': 'Enter'})")
    [] OTHER -> "wait({})"

\* set_state's draw: if the Session runs, draw_status_bar(status, detail).
StateDraw(st, detail) ==
  IF running
    THEN /\ mdraw' = [NoDraw EXCEPT !.l1 = STATE_DISPLAY[st], !.l2 = detail]
         /\ mpc' = "d_store"
    ELSE UNCHANGED <<mdraw, mpc>>

\* A faulty variant of Dispatch, which C31 must not survive: a tool that is
\* not known is taken for send_text.
DispatchDefaultSend(tool) ==
  CASE tool = "send_keys" -> "send_keys"
    [] tool = "send_key" -> "send_key"
    [] tool = "send_escape" -> "send_escape"
    [] OTHER -> "send"

\* execute_action's if / elif chain, which has no else.
Dispatch(tool) ==
  CASE tool = "send_text" -> "send"
    [] tool = "send_keys" -> "send_keys"
    [] tool = "send_key" -> "send_key"
    [] tool = "send_escape" -> "send_escape"
    [] OTHER -> "none"

\* args.get("text", ""), args.get("keys", []), args.get("key", "")
OpArg(a) ==
  CASE a.tool = "send_keys" -> a.arg
    [] a.tool = "send_escape" -> <<>>
    [] OTHER -> IF a.arg = <<>> THEN <<"">> ELSE a.arg

\* The test of the operation called and the writes it has to make.
OpSteps(op, arg) ==
  CASE op = "send" -> IF CallRuns THEN SendSteps(arg[1]) ELSE <<>>
    [] op = "send_keys" -> KeySteps(arg)
    [] op = "send_key" ->
         IF CallRuns THEN <<[data |-> KeyData(arg[1]), test |-> FALSE]>>
         ELSE <<>>
    [] op = "send_escape" ->
         IF CallRuns THEN <<[data |-> KeyData("escape"), test |-> TRUE]>>
         ELSE <<>>

LoopInit ==
  /\ SessionUp /\ BufOff /\ LifeOff
  /\ child_in = <<>> /\ tin = <<>> /\ todo = <<>> /\ shown = <<>>
  /\ cout = <<>> /\ winch = NoWinch
  /\ loop = [NoLoop EXCEPT !.pc = "ready"]

\* run: set_state(State.LISTENING, "Ready")
LoopReady ==
  /\ loop.pc = "ready" /\ mpc = "idle" /\ MainRuns
  /\ loop' = [loop EXCEPT !.state = "LISTENING", !.pc = "top"]
  /\ StateDraw("LISTENING", "Ready")
  /\ Quiet
  /\ UNCHANGED <<sess, mdims, handv, relayv, hist, bufv, lifev, child_in, tin,
                 todo, shown, cout, winch>>

\* while self.claude.is_alive(): self.set_state(State.LISTENING)
LoopTop ==
  /\ loop.pc = "top" /\ mpc = "idle" /\ MainRuns
  /\ loop.n < MaxTurns
  /\ IF process = "alive" /\ child # "exited"
       THEN /\ loop' = [loop EXCEPT !.state = "LISTENING",
                                    !.seen = <<"LISTENING">>,
                                    !.pc = "listen", !.n = @ + 1]
            /\ StateDraw("LISTENING", loop.last)
       ELSE /\ loop' = [loop EXCEPT !.pc = "done"]
            /\ UNCHANGED <<mdraw, mpc>>
  /\ Quiet
  /\ UNCHANGED <<sess, mdims, handv, relayv, hist, bufv, lifev, child_in, tin,
                 todo, shown, cout, winch>>

\* capture.listen: it returns None before any speech, or speech begins and
\* _on_speech_start is called: set_state(State.SPEAKING) ...
LoopListen ==
  /\ loop.pc = "listen" /\ mpc = "idle" /\ MainRuns
  /\ \E heard \in BOOLEAN :
       IF heard
         THEN /\ loop' = [loop EXCEPT !.state = "SPEAKING",
                                      !.seen = Append(@, "SPEAKING"),
                                      !.pc = "speech"]
              /\ StateDraw("SPEAKING", loop.last)
         ELSE /\ loop' = [loop EXCEPT !.pc = "top"]
              /\ UNCHANGED <<mdraw, mpc>>
  /\ Quiet
  /\ UNCHANGED <<sess, mdims, handv, relayv, hist, bufv, lifev, child_in, tin,
                 todo, shown, cout, winch>>

\* ... then has_menu_prompt() and, if it is false, send_escape().
LoopSpeech ==
  /\ loop.pc = "speech" /\ mpc = "idle" /\ MainRuns
  /\ lock = "none"
  /\ shown' = ScreenState(screen_buffer)
  /\ call' = [NoCall EXCEPT !.op = "speech",
                            !.arg = <<HasMenuPrompt(shown')>>,
                            !.ran = ~HasMenuPrompt(shown') /\ CallRuns]
  /\ todo' = IF ~HasMenuPrompt(shown') /\ CallRuns
               THEN <<[data |-> KeyData("escape"), test |-> TRUE]>>
               ELSE <<>>
  /\ mpc' = "call"
  /\ loop' = [loop EXCEPT !.pc = "heard"]
  /\ Quiet
  /\ UNCHANGED <<sess, mdraw, mdims, handv, relayv, hist, bufv, child, ipc,
                 eof, starts, stops, snap, child_in, tin, cout, winch>>

\* listen returns None (too little speech, or the child has ended) or the
\* audio: set_state(State.TRANSCRIBING), and transcribe returns a text or
\* none.
LoopTranscribe ==
  /\ loop.pc = "heard" /\ mpc = "idle" /\ MainRuns
  /\ \E audio \in BOOLEAN, text \in {"", "hi"} :
       IF audio
         THEN /\ loop' = [loop EXCEPT !.state = "TRANSCRIBING",
                                      !.seen = Append(@, "TRANSCRIBING"),
                                      !.text = text,
                                      !.pc = IF text = "" THEN "top"
                                             ELSE "agent"]
              /\ StateDraw("TRANSCRIBING", loop.last)
         ELSE /\ loop' = [loop EXCEPT !.pc = "top"]
              /\ UNCHANGED <<mdraw, mpc>>
  /\ Quiet
  /\ UNCHANGED <<sess, mdims, handv, relayv, hist, bufv, lifev, child_in, tin,
                 todo, shown, cout, winch>>

\* set_state(State.AGENT_PROCESSING, '"text"'), get_screen_state(), and
\* agent.process returns an action or None.
LoopAgent ==
  /\ loop.pc = "agent" /\ mpc = "idle" /\ MainRuns
  /\ lock = "none"
  /\ shown' = ScreenState(screen_buffer)
  /\ \E a \in Actions \cup {NoAction} :
       loop' = [loop EXCEPT !.state = "AGENT_PROCESSING",
                            !.seen = Append(@, "AGENT_PROCESSING"),
                            !.action = a,
                            !.pc = IF a = NoAction THEN "top" ELSE "show"]
  /\ StateDraw("AGENT_PROCESSING", "\"hi\"")
  /\ Quiet
  /\ UNCHANGED <<sess, mdims, handv, relayv, hist, bufv, lifev, child_in, tin,
                 todo, cout, winch>>

\* self.last_action = detail; set_state(State.CLAUDE_WORKING, detail)
LoopShow ==
  /\ loop.pc = "show" /\ mpc = "idle" /\ MainRuns
  /\ loop' = [loop EXCEPT !.state = "CLAUDE_WORKING",
                          !.seen = Append(@, "CLAUDE_WORKING"),
                          !.last = Detail(loop.action),
                          !.pc = "execute"]
  /\ StateDraw("CLAUDE_WORKING", Detail(loop.action))
  /\ Quiet
  /\ UNCHANGED <<sess, mdims, handv, relayv, hist, bufv, lifev, child_in, tin,
                 todo, shown, cout, winch>>

\* execute_action: the operation of the Session the tool stands for is
\* called, if there is one; InWrite makes its writes.
LoopExecute ==
  /\ loop.pc = "execute" /\ mpc = "idle" /\ MainRuns
  /\ IF Dispatch(loop.action.tool) = "none"
       THEN /\ call' = NoCall
            /\ todo' = <<>>
            /\ mpc' = mpc
       ELSE /\ call' = [op |-> Dispatch(loop.action.tool),
                        arg |-> OpArg(loop.action), ran |-> CallRuns,
                        sent |-> <<>>, ret |-> FALSE]
            /\ todo' = OpSteps(Dispatch(loop.action.tool), OpArg(loop.action))
            /\ mpc' = "call"
  /\ loop' = [loop EXCEPT !.pc = "top"]
  /\ Quiet
  /\ UNCHANGED <<sess, mdraw, mdims, handv, relayv, hist, bufv, child, ipc,
                 eof, starts, stops, snap, child_in, tin, shown, cout, winch>>

LoopNext ==
  \/ LoopReady \/ LoopTop \/ LoopListen \/ LoopSpeech \/ LoopTranscribe
  \/ LoopAgent \/ LoopShow \/ LoopExecute \/ InWrite
  \/ MainDrawStore \/ MainDrawRow1 \/ MainDrawRow2 \/ MainDrawWrite
  \/ RelayAppend \/ RelayLoop \/ RelayTimeout \/ RelayEOF
  \/ RelayRestoreTerminal \/ ChildExits

LoopSpec == LoopInit /\ [][LoopNext]_vars

\* execute_action is about to run, and runs.
Executes == loop.pc = "execute" /\ loop'.pc = "top"

\* C31: execute_action calls the one operation of the Session its tool
\* stands for, with the tool's argument or its default, and for any other
\* tool calls none and writes nothing to the child; when it runs, the states
\* set last in this iteration of the main loop are TRANSCRIBING,
\* AGENT_PROCESSING and CLAUDE_WORKING, in this order; and the main thread
\* writes to the child only inside an operation it has called.
C31_ActionDispatch ==
  [][/\ Executes =>
          LET a == loop.action
              n == Len(loop.seen)
          IN /\ n >= 3 /\ loop.state = "CLAUDE_WORKING"
             /\ SubSeq(loop.seen, n - 2, n) =
                  <<"TRANSCRIBING", "AGENT_PROCESSING", "CLAUDE_WORKING">>
             /\ a.tool = "send_text" =>
                  /\ call'.op = "send"
                  /\ call'.arg = (IF a.arg = <<>> THEN <<"">> ELSE a.arg)
             /\ a.tool = "send_keys" =>
                  call'.op = "send_keys" /\ call'.arg = a.arg
             /\ a.tool = "send_key" =>
                  /\ call'.op = "send_key"
                  /\ call'.arg = (IF a.arg = <<>> THEN <<"">> ELSE a.arg)
             /\ a.tool = "send_escape" => call'.op = "send_escape"
             /\ a.tool \notin {"send_text", "send_keys", "send_key",
                               "send_escape"} =>
                  /\ call' = NoCall /\ todo' = <<>> /\ mpc' = "idle"
                  /\ child_in' = child_in
     /\ child_in' # child_in => mpc = "call" /\ call.op # "none"]_vars
C31_Witness ==
  /\ loop.pc = "top" /\ mpc = "idle" /\ todo = <<>>
  /\ loop.action = [tool |-> "send_keys", arg |-> <<"up", "Enter">>]
  /\ call.op = "send_keys" /\ call.sent = <<"ESC[A", "CR">>
  /\ child_in = <<<<"main", "ESC">>, <<"main", "ESC[A">>, <<"main", "CR">>>>
  /\ loop.seen = <<"LISTENING", "SPEAKING", "TRANSCRIBING",
                   "AGENT_PROCESSING", "CLAUDE_WORKING">>

====
